---- MODULE Spec2Model ----
(***************************************************************************)
(* Model of the VoxCPM text-to-speech service: the text segmenter          *)
(* (api/utils/text_splitter.py), the generated-audio store                 *)
(* (api/utils/cleanup.py), the generation service with its routes          *)
(* (api/services/tts_service.py, api/routers/tts.py), the application      *)
(* lifespan (api/main.py) and the podcast route (api/routers/v2.py).       *)
(***************************************************************************)
EXTENDS Integers, Sequences, FiniteSets, TLC

VARIABLES
    \* text segmenter
    text,            \* the input of smart_split
    max_length,      \* its max_length argument
    segments,        \* the list it returned
    split_pc,        \* "input" before the call, "done" after it
    \* generated-audio store (GeneratedAudioManager)
    expire_arg,      \* the expire_hours argument the store was constructed with
    expire_hours,    \* self.expire_hours
    _metadata,       \* self._metadata: audio_id -> metadata record
    disk_metadata,   \* contents of metadata.json
    files,           \* audio files completely written in generated_dir
    issued,          \* the ids uuid.uuid4() has returned so far
    now,             \* datetime.utcnow(), in hours
    ticks,           \* number of clock advances so far
    lastOp,          \* the last store call and what it returned
    download,        \* the answer of the last download_audio request
    \* application lifespan (api/main.py) and the periodic sweep (cleanup_task)
    cleanup_task_handle, \* the sweep task: where it stands, cancellation requested
                         \* and not yet raised in it, sweeps it has executed
    lifespan_pc,     \* where the lifespan context manager stands
    \* generation service (TTSService) and its routes
    _model,          \* self._model: "None" or "VoxCPM"
    _asr_model,      \* self._asr_model: "None" or "AutoModel"
    lock_owner,      \* the request holding self._model_lock, 0 when free
    lock_waiters,    \* the requests waiting for it, in arrival order
    ex_queue,        \* calls submitted to self._executor and not yet started
    ex_running,      \* calls running on its worker threads
    loop,            \* the request whose coroutine runs on the event loop, 0 when idle
    pc,              \* per request: where its coroutine stands
    request,         \* per request: the TTSGenerateRequest and the route it came by
    fut,             \* per request: the future of its run_in_executor call
    seg_i,           \* per request: i of the segment loop
    all_audio,       \* per request: the segment audios collected so far
    events,          \* per request: the events its streaming generator has yielded
    temp_file,       \* per request: whether its NamedTemporaryFile exists
    response,        \* per request: what the route answered
    dispatched,      \* per request: the calls it has submitted to the executor
    loads,           \* executions of load_model: started and failed
    \* podcast route (api/routers/v2.py, generate_podcast)
    podcast          \* the request, where its handler stands, its locals and its answer

splitVars == <<text, max_length, segments, split_pc>>

taskVars == <<cleanup_task_handle, lifespan_pc>>

storeVars ==
    <<expire_arg, expire_hours, _metadata, disk_metadata, files, issued, now, ticks, lastOp,
      download, taskVars>>

lockVars == <<lock_owner, lock_waiters>>

execVars == <<ex_queue, ex_running, fut, dispatched>>

reqVars == <<pc, request, seg_i, all_audio, events, temp_file, response>>

svcVars == <<_model, _asr_model, lockVars, execVars, loop, reqVars, loads>>

vars == <<splitVars, storeVars, svcVars, podcast>>

(***************************************************************************)
(* Generic helpers                                                         *)
(***************************************************************************)
MaxOf(S) == CHOOSE x \in S : \A y \in S : y <= x

MinOf(S) == CHOOSE x \in S : \A y \in S : x <= y

RECURSIVE Flatten(_)
Flatten(ss) == IF ss = <<>> THEN <<>> ELSE Head(ss) \o Flatten(Tail(ss))

(***************************************************************************)
(* Text segmenter: api/utils/text_splitter.py                              *)
(* A text is a sequence of characters; a character is a one-element string *)
(* or, for the full-width punctuation, its code point name.                *)
(***************************************************************************)
PRIMARY_DELIMITERS == {"U+3002", "U+FF01", "U+FF1F", "U+FF1B", "\n"}

SECONDARY_DELIMITERS == {"U+FF0C", "U+3001", "U+FF1A", ":", ",", ";"}

\* the characters str.strip() removes
WHITESPACE == {" ", "\n", "\t"}

\* min_length of _merge_short_segments as passed by split
MIN_LENGTH == 20

\* the backward search window of _hard_split
SEARCH_WINDOW == 50

RECURSIVE LStrip(_)
LStrip(s) ==
    IF s # <<>> /\ Head(s) \in WHITESPACE THEN LStrip(Tail(s)) ELSE s

RECURSIVE RStrip(_)
RStrip(s) ==
    IF s # <<>> /\ s[Len(s)] \in WHITESPACE
    THEN RStrip(SubSeq(s, 1, Len(s) - 1))
    ELSE s

Strip(s) == RStrip(LStrip(s))

\* the positions 1..Len(s) in order
Positions(s) == [k \in 1..Len(s) |-> k]

\* re.sub(c+, c, s): of every run of c its last character stays
CollapseRuns(s, c) ==
    LET keep == SelectSeq(Positions(s),
                          LAMBDA k : k = Len(s) \/ ~(s[k] = c /\ s[k + 1] = c))
    IN [i \in 1..Len(keep) |-> s[keep[i]]]

_normalize_text(t) == Strip(CollapseRuns(CollapseRuns(t, "\n"), " "))

\* _split_by_pattern: re.split on the delimiters with each delimiter kept at
\* the end of the part before it; the parts that are blank are dropped
_split_by_pattern(t, delims) ==
    LET ends == SelectSeq(Positions(t), LAMBDA k : t[k] \in delims \/ k = Len(t))
        parts == [j \in 1..Len(ends) |->
                     SubSeq(t, IF j = 1 THEN 1 ELSE ends[j - 1] + 1, ends[j])]
    IN SelectSeq(parts, LAMBDA part : Strip(part) # <<>>)

\* str.rfind(c, start, end) with 0-based positions, -1 when absent
RFind(s, c, start, end) ==
    LET hi == IF end < Len(s) THEN end ELSE Len(s)
        cand == {k \in start..(hi - 1) : s[k + 1] = c}
    IN IF cand = {} THEN -1 ELSE MaxOf(cand)

HardRestSkippingOne(remaining, split_point) ==
    Strip(SubSeq(remaining, split_point + 2, Len(remaining)))

\* remaining[split_point:] of _hard_split
HardRest(remaining, split_point) ==
    Strip(SubSeq(remaining, split_point + 1, Len(remaining)))

RECURSIVE HardSplitAtMaxLength(_, _)
HardSplitAtMaxLength(remaining, m) ==
    IF Len(remaining) > m
    THEN LET segment == Strip(SubSeq(remaining, 1, m))
         IN (IF segment # <<>> THEN <<segment>> ELSE <<>>)
                \o HardSplitAtMaxLength(HardRest(remaining, m), m)
    ELSE IF remaining # <<>> THEN <<remaining>> ELSE <<>>

RECURSIVE _hard_split(_, _)
_hard_split(remaining, m) ==
    IF Len(remaining) > m
    THEN LET search_start == IF m - SEARCH_WINDOW > 0 THEN m - SEARCH_WINDOW ELSE 0
             space_pos == RFind(remaining, " ", search_start, m)
             split_point == IF space_pos > search_start THEN space_pos ELSE m
             segment == Strip(SubSeq(remaining, 1, split_point))
         IN (IF segment # <<>> THEN <<segment>> ELSE <<>>)
                \o _hard_split(HardRest(remaining, split_point), m)
    ELSE IF remaining # <<>> THEN <<remaining>> ELSE <<>>

CanMergeIgnoringMaxLength(current, next, min_length, m) ==
    Len(current) < min_length

\* the merge condition of the inner while of _merge_short_segments
CanMerge(current, next, min_length, m) ==
    Len(current) < min_length /\ Len(current) + Len(next) <= m

RECURSIVE MergeLoop(_, _, _, _, _, _)
MergeLoop(segs, i, current, result, min_length, m) ==
    IF i > Len(segs) THEN result
    ELSE IF i + 1 <= Len(segs) /\ CanMerge(current, segs[i + 1], min_length, m)
         THEN MergeLoop(segs, i + 1, current \o segs[i + 1], result, min_length, m)
         ELSE IF i + 1 <= Len(segs)
              THEN MergeLoop(segs, i + 1, segs[i + 1], Append(result, current),
                             min_length, m)
              ELSE Append(result, current)

_merge_short_segments(segs, min_length, m) ==
    IF Len(segs) <= 1 THEN segs
    ELSE MergeLoop(segs, 1, segs[1], <<>>, min_length, m)

\* second pass of split for one piece of the first pass
RECURSIVE SubPass(_, _)
SubPass(subs, m) ==
    IF subs = <<>> THEN <<>>
    ELSE (IF Len(Head(subs)) <= m THEN <<Head(subs)>> ELSE _hard_split(Head(subs), m))
             \o SubPass(Tail(subs), m)

RECURSIVE SecondPass(_, _)
SecondPass(segs, m) ==
    IF segs = <<>> THEN <<>>
    ELSE (IF Len(Head(segs)) <= m
          THEN <<Head(segs)>>
          ELSE SubPass(_split_by_pattern(Head(segs), SECONDARY_DELIMITERS), m))
             \o SecondPass(Tail(segs), m)

\* result = [s.strip() for s in result if s.strip()]
RECURSIVE StripFilter(_)
StripFilter(segs) ==
    IF segs = <<>> THEN <<>>
    ELSE (IF Strip(Head(segs)) # <<>> THEN <<Strip(Head(segs))>> ELSE <<>>)
             \o StripFilter(Tail(segs))

SplitAlwaysCutting(t, m) ==
    IF t = <<>> \/ Strip(t) = <<>> THEN <<>>
    ELSE _merge_short_segments(
             StripFilter(SecondPass(_split_by_pattern(_normalize_text(t),
                                                      PRIMARY_DELIMITERS), m)),
             MIN_LENGTH, m)

split(t, m) ==
    IF t = <<>> \/ Strip(t) = <<>> THEN <<>>
    ELSE LET norm == _normalize_text(t)
         IN IF Len(norm) <= m THEN <<norm>>
            ELSE _merge_short_segments(
                     StripFilter(SecondPass(_split_by_pattern(norm, PRIMARY_DELIMITERS), m)),
                     MIN_LENGTH, m)

smart_split(t, m) == split(t, m)

(***************************************************************************)
(* Inputs of the segmenter: every short text over SplitAlphabet, and long  *)
(* texts made of blocks, long enough for MIN_LENGTH and SEARCH_WINDOW.     *)
(***************************************************************************)
MaxTextLen == 5

MaxMaxLength == 4

MaxBlocks == 4

SplitAlphabet == {"a", " ", "\n", "\t", "U+3002", ","}

ShortTexts == UNION {[1..n -> SplitAlphabet] : n \in 0..MaxTextLen}

Word(n) == [k \in 1..n |-> "a"]

Blocks == {Word(5), Word(7), Word(23), Word(58), <<" ">>, <<",">>, <<"U+3002">>}

LongTexts == {Flatten(bs) : bs \in UNION {[1..n -> Blocks] : n \in 1..MaxBlocks}}

LongMaxLengths == {25, 55}

\* the call smart_split("Hello world. This is a test!", max_length=15)
ExampleCall ==
    [text |->
        <<"H", "e", "l", "l", "o", " ", "w", "o", "r", "l", "d", ".", " ",
          "T", "h", "i", "s", " ", "i", "s", " ", "a", " ", "t", "e", "s",
          "t", "!">>,
     max_length |-> 15]

SplitIdle ==
    /\ text = <<>>
    /\ max_length = 1
    /\ segments = <<>>
    /\ split_pc = "idle"

SplitInit ==
    /\ \/ text \in ShortTexts /\ max_length \in 1..MaxMaxLength
       \/ text \in LongTexts /\ max_length \in LongMaxLengths
       \/ text = ExampleCall.text /\ max_length = ExampleCall.max_length
    /\ segments = <<>>
    /\ split_pc = "input"

\* smart_split(text, max_length)
SmartSplit ==
    /\ split_pc = "input"
    /\ segments' = smart_split(text, max_length)
    /\ split_pc' = "done"
    /\ UNCHANGED <<text, max_length, storeVars, svcVars, podcast>>

NoWhitespace(s) == SelectSeq(s, LAMBDA c : c \notin WHITESPACE)

\* the list handed to the merge step in split
BeforeMerge ==
    StripFilter(SecondPass(_split_by_pattern(_normalize_text(text), PRIMARY_DELIMITERS),
                           max_length))

(***************************************************************************)
(* Generated-audio store: api/utils/cleanup.py, GeneratedAudioManager.     *)
(* Its methods contain no await, so each call is one step of the event     *)
(* loop. Time is counted in hours.                                         *)
(***************************************************************************)
\* settings.generated_audio_expire_hours
generated_audio_expire_hours == 24

MaxAudioIds == 2

MaxTicks == 2

MaxExpireArg == 1

AudioIds == 1..MaxAudioIds

Formats == {"wav", "mp3"}

Durations == {1, 2}

SampleRates == {16000}

\* the expire_hours argument of the constructor; None when omitted
None == 0 - 1

ExpireArgs == {None} \cup (0..MaxExpireArg)

\* clock advances: an hour, or a day
TickSteps == {1, generated_audio_expire_hours}

\* Python's "x or d" on an optional integer
OrDefault(x, d) == IF x = None \/ x = 0 THEN d ELSE x

\* datetime.isoformat and datetime.fromisoformat
isoformat(t) == <<"iso", t>>

fromisoformat(str) == str[2]

FileName(audio_id, format) == <<audio_id, format>>

IsExpiredAfterGrace(meta, t) == t > fromisoformat(meta.expires_at) + 1

\* the test "datetime.utcnow() > expires_at" of the read paths and the sweep
IsExpired(meta, t) == t > fromisoformat(meta.expires_at)

WithoutNothing(d, k) == d

\* the dict without one key
Without(d, k) == [x \in DOMAIN d \ {k} |-> d[x]]

\* os.unlink of _delete_audio
Unlink(fs, filename) == fs \ {filename}

\* _delete_audio as a function of (metadata, files): the state it leaves
DeleteAudio(md, fs, audio_id) ==
    IF audio_id \in DOMAIN md
    THEN [md |-> Without(md, audio_id), fs |-> Unlink(fs, md[audio_id].filename)]
    ELSE [md |-> md, fs |-> fs]

RECURSIVE DeleteAll(_, _, _)
DeleteAll(md, fs, ids) ==
    IF ids = {} THEN [md |-> md, fs |-> fs]
    ELSE LET audio_id == CHOOSE x \in ids : TRUE
             d == DeleteAudio(md, fs, audio_id)
         IN DeleteAll(d.md, d.fs, ids \ {audio_id})

NoPath == <<>>

\* the answer of download_audio: the HTTP status, and the path and the
\* metadata the FileResponse was built from
DownloadAnswer(status, audio_id, path, meta) ==
    [status |-> status, audio_id |-> audio_id, path |-> path, meta |-> meta]

NoDownload == DownloadAnswer("none", 0, NoPath, {})

\* the latest step of the store: the call and its argument, what it returned
\* (path, meta, count), and whether it took the branch that deletes
OpRecord(op, audio_id, path, meta, count, reclaimed) ==
    [op |-> op, audio_id |-> audio_id, path |-> path, meta |-> meta,
     count |-> count, reclaimed |-> reclaimed]

\* cleanup_task_handle = None (main.py:31): no sweep task, no lifespan running
NoTask == [state |-> "None", must_cancel |-> FALSE, sweeps |-> 0]

LifespanIdle ==
    /\ cleanup_task_handle = NoTask
    /\ lifespan_pc = "none"

StoreIdle ==
    /\ LifespanIdle
    /\ expire_arg = None
    /\ expire_hours = generated_audio_expire_hours
    /\ _metadata = <<>>
    /\ disk_metadata = <<>>
    /\ files = {}
    /\ issued = {}
    /\ now = 0
    /\ ticks = 0
    /\ lastOp = OpRecord("none", 0, NoPath, {}, 0, FALSE)
    /\ download = NoDownload

\* GeneratedAudioManager.__init__ on an empty directory
StoreInit ==
    /\ expire_arg \in ExpireArgs
    /\ expire_hours = OrDefault(expire_arg, generated_audio_expire_hours)
    /\ _metadata = <<>>
    /\ disk_metadata = <<>>
    /\ files = {}
    /\ issued = {}
    /\ now = 0
    /\ ticks = 0
    /\ lastOp = OpRecord("none", 0, NoPath, {}, 0, FALSE)
    /\ download = NoDownload

\* the metadata record save_audio builds
NewMetadata(audio_id, format, sample_rate, duration_seconds, t, ttl) ==
    [audio_id |-> audio_id,
     filename |-> FileName(audio_id, format),
     format |-> format,
     sample_rate |-> sample_rate,
     duration_seconds |-> duration_seconds,
     created_at |-> isoformat(t),
     expires_at |-> isoformat(t + ttl)]

WithOnly(d, k, v) == [x \in {k} |-> v]

\* the dict with d[k] = v
With(d, k, v) == [x \in DOMAIN d \cup {k} |-> IF x = k THEN v ELSE d[x]]

\* save_audio: the file is written, then the entry inserted and metadata.json rewritten
save_audio(audio_id, format, sample_rate, duration_seconds) ==
    LET meta == NewMetadata(audio_id, format, sample_rate, duration_seconds,
                            now, expire_hours)
    IN /\ files' = files \cup {FileName(audio_id, format)}
       /\ _metadata' = With(_metadata, audio_id, meta)
       /\ disk_metadata' = _metadata'
       /\ lastOp' = OpRecord("save", audio_id, NoPath, {meta}, 0, FALSE)

save_audio_entry_first(audio_id, format, sample_rate, duration_seconds) ==
    LET meta == NewMetadata(audio_id, format, sample_rate, duration_seconds,
                            now, expire_hours)
    IN /\ _metadata' = With(_metadata, audio_id, meta)
       /\ disk_metadata' = _metadata'
       /\ lastOp' = OpRecord("save_failed", audio_id, NoPath, {}, 0, FALSE)
       /\ UNCHANGED files

\* save_audio when writing the file raises (OSError): the call ends there,
\* before the entry is built; whatever part of the file was written is not
\* a complete file
save_audio_write_error(audio_id, format, sample_rate, duration_seconds) ==
    /\ lastOp' = OpRecord("save_failed", audio_id, NoPath, {}, 0, FALSE)
    /\ UNCHANGED <<files, _metadata, disk_metadata>>

\* a caller saves under a fresh id: audio_id = str(uuid.uuid4())
SaveAudio ==
    \E audio_id \in AudioIds \ issued, format \in Formats, sample_rate \in SampleRates,
       duration_seconds \in Durations :
        /\ issued' = issued \cup {audio_id}
        /\ \/ save_audio(audio_id, format, sample_rate, duration_seconds)
           \/ save_audio_write_error(audio_id, format, sample_rate, duration_seconds)
        /\ UNCHANGED <<expire_arg, expire_hours, now, ticks, download, taskVars, splitVars, podcast, svcVars>>

GetAudioPath ==
    \E audio_id \in AudioIds :
        /\ IF audio_id \notin DOMAIN _metadata
           THEN /\ lastOp' = OpRecord("fetch", audio_id, NoPath, {}, 0, FALSE)
                /\ UNCHANGED <<_metadata, disk_metadata, files>>
           ELSE LET meta == _metadata[audio_id]
                IN IF IsExpired(meta, now)
                   THEN LET d == DeleteAudio(_metadata, files, audio_id)
                        IN /\ _metadata' = d.md
                           /\ files' = d.fs
                           /\ disk_metadata' = d.md
                           /\ lastOp' = OpRecord("fetch", audio_id, NoPath, {}, 0, TRUE)
                   ELSE /\ lastOp' = OpRecord("fetch", audio_id,
                                              IF meta.filename \in files
                                              THEN meta.filename ELSE NoPath,
                                              {}, 0, FALSE)
                        /\ UNCHANGED <<_metadata, disk_metadata, files>>
        /\ UNCHANGED <<expire_arg, expire_hours, issued, now, ticks, download, taskVars, splitVars, podcast, svcVars>>

GetAudioInfo ==
    \E audio_id \in AudioIds :
        /\ IF audio_id \notin DOMAIN _metadata
           THEN /\ lastOp' = OpRecord("info", audio_id, NoPath, {}, 0, FALSE)
                /\ UNCHANGED <<_metadata, disk_metadata, files>>
           ELSE LET meta == _metadata[audio_id]
                IN IF IsExpired(meta, now)
                   THEN LET d == DeleteAudio(_metadata, files, audio_id)
                        IN /\ _metadata' = d.md
                           /\ files' = d.fs
                           /\ disk_metadata' = d.md
                           /\ lastOp' = OpRecord("info", audio_id, NoPath, {}, 0, TRUE)
                   ELSE /\ lastOp' = OpRecord("info", audio_id, NoPath, {meta}, 0, FALSE)
                        /\ UNCHANGED <<_metadata, disk_metadata, files>>
        /\ UNCHANGED <<expire_arg, expire_hours, issued, now, ticks, download, taskVars, splitVars, podcast, svcVars>>

AllIds(md, t) == DOMAIN md

\* the ids cleanup_expired collects
ExpiredIds(md, t) == {audio_id \in DOMAIN md : IsExpired(md[audio_id], t)}

\* cleanup_expired: what one sweep does to the store
cleanup_expired ==
    LET expired_ids == ExpiredIds(_metadata, now)
        d == DeleteAll(_metadata, files, expired_ids)
    IN /\ _metadata' = d.md
       /\ files' = d.fs
       /\ disk_metadata' = IF expired_ids = {} THEN disk_metadata ELSE d.md
       /\ lastOp' = OpRecord("sweep", 0, NoPath, {}, Cardinality(expired_ids),
                            expired_ids # {})

CleanupExpired ==
    /\ cleanup_expired
    /\ UNCHANGED <<expire_arg, expire_hours, issued, now, ticks, download, taskVars, splitVars, podcast, svcVars>>

\* get_audio_path at time t: the path it returns and the state it leaves
get_audio_path(md, fs, audio_id, t) ==
    IF audio_id \notin DOMAIN md
    THEN [path |-> NoPath, md |-> md, fs |-> fs, reclaimed |-> FALSE]
    ELSE LET meta == md[audio_id]
         IN IF IsExpired(meta, t)
            THEN LET d == DeleteAudio(md, fs, audio_id)
                 IN [path |-> NoPath, md |-> d.md, fs |-> d.fs, reclaimed |-> TRUE]
            ELSE [path |-> IF meta.filename \in fs THEN meta.filename ELSE NoPath,
                  md |-> md, fs |-> fs, reclaimed |-> FALSE]

\* get_audio_info at time t: the metadata it returns ({} for None) and the
\* state it leaves
get_audio_info(md, fs, audio_id, t) ==
    IF audio_id \notin DOMAIN md
    THEN [meta |-> {}, md |-> md, fs |-> fs, reclaimed |-> FALSE]
    ELSE LET meta == md[audio_id]
         IN IF IsExpired(meta, t)
            THEN LET d == DeleteAudio(md, fs, audio_id)
                 IN [meta |-> {}, md |-> d.md, fs |-> d.fs, reclaimed |-> TRUE]
            ELSE [meta |-> {meta}, md |-> md, fs |-> fs, reclaimed |-> FALSE]

\* the time that passes between the clock reading of get_audio_path and
\* that of get_audio_info in download_audio: none, or one unit of the clock
ClockReadGaps == {0, 1}

\* download_audio: get_audio_path, HTTP 404 when it returns None, then
\* get_audio_info, whose result is subscripted for the FileResponse (a
\* TypeError, answered with HTTP 500, when it is None)
DownloadAudio ==
    \E audio_id \in AudioIds :
        LET p == get_audio_path(_metadata, files, audio_id, now)
        IN /\ IF p.path = NoPath
              THEN /\ download' = DownloadAnswer("404", audio_id, NoPath, {})
                   /\ _metadata' = p.md
                   /\ files' = p.fs
                   /\ disk_metadata' = IF p.reclaimed THEN p.md ELSE disk_metadata
                   /\ lastOp' = OpRecord("fetch", audio_id, NoPath, {}, 0, p.reclaimed)
                   /\ UNCHANGED <<now, ticks>>
              ELSE \E gap \in ClockReadGaps :
                      LET info == get_audio_info(p.md, p.fs, audio_id, now + gap)
                      IN /\ gap > 0 => ticks < MaxTicks
                         /\ now' = now + gap
                         /\ ticks' = IF gap > 0 THEN ticks + 1 ELSE ticks
                         /\ _metadata' = info.md
                         /\ files' = info.fs
                         /\ disk_metadata' = IF info.reclaimed THEN info.md
                                             ELSE disk_metadata
                         /\ lastOp' = OpRecord("info", audio_id, NoPath, info.meta, 0,
                                              info.reclaimed)
                         /\ download' =
                               IF info.meta = {}
                               THEN DownloadAnswer("500", audio_id, NoPath, {})
                               ELSE DownloadAnswer("200", audio_id, p.path, info.meta)
           /\ UNCHANGED <<expire_arg, expire_hours, issued, taskVars, splitVars, podcast, svcVars>>

\* the clock advances
Tick ==
    /\ ticks < MaxTicks
    /\ \E d \in TickSteps : now' = now + d
    /\ ticks' = ticks + 1
    /\ lastOp' = OpRecord("tick", 0, NoPath, {}, 0, FALSE)
    /\ UNCHANGED <<expire_arg, expire_hours, _metadata, disk_metadata, files, issued, download,
                   taskVars, splitVars, podcast, svcVars>>

(***************************************************************************)
(* Application lifespan (api/main.py) and the periodic sweep task          *)
(* (cleanup_task of api/utils/cleanup.py).  The task is an asyncio task:   *)
(* it advances one step at a time on the event loop, and a cancel() of it  *)
(* is raised in it as CancelledError when it next resumes.                 *)
(***************************************************************************)
MaxSweeps == 2

storeData ==
    <<expire_arg, expire_hours, _metadata, disk_metadata, files, issued, now, ticks, lastOp,
      download>>

\* the states in which the task has ended: its coroutine returned, or it was
\* cancelled before its coroutine ever ran
TaskDone == {"finished", "cancelled"}

\* lifespan up to its yield: asyncio.create_task(cleanup_task())
LifespanStartup ==
    /\ lifespan_pc = "startup"
    /\ cleanup_task_handle' = [state |-> "created", must_cancel |-> FALSE, sweeps |-> 0]
    /\ lifespan_pc' = "serving"
    /\ UNCHANGED <<storeData, splitVars, podcast, svcVars>>

\* the first step of the task: get_audio_manager(), the interval, and the
\* first "await asyncio.sleep(interval)"; a task cancelled before its first
\* step ends cancelled without running its coroutine
CleanupTaskStart ==
    /\ cleanup_task_handle.state = "created"
    /\ cleanup_task_handle' =
          IF cleanup_task_handle.must_cancel
          THEN [cleanup_task_handle EXCEPT !.state = "cancelled", !.must_cancel = FALSE]
          ELSE [cleanup_task_handle EXCEPT !.state = "sleeping"]
    /\ UNCHANGED <<lifespan_pc, storeData, splitVars, podcast, svcVars>>

\* the interval has passed: the sleep is over and the task is scheduled to resume
TimerFires ==
    /\ cleanup_task_handle.state = "sleeping"
    /\ ~cleanup_task_handle.must_cancel
    /\ cleanup_task_handle' = [cleanup_task_handle EXCEPT !.state = "woken"]
    /\ UNCHANGED <<lifespan_pc, storeData, splitVars, podcast, svcVars>>

\* the sweeps the task has executed, counted up to MaxSweeps
SweepsCounted(n) == IF n < MaxSweeps THEN n + 1 ELSE n

SwallowCancelledError == "sleeping"

\* "except asyncio.CancelledError: break": the loop is left and the
\* coroutine returns
OnCancelledError == "finished"

\* the task resumes after its sleep: with a cancellation requested meanwhile
\* CancelledError is raised at the await, otherwise cleanup_expired() runs
\* and the task sleeps again
CleanupTaskWake ==
    /\ cleanup_task_handle.state = "woken"
    /\ IF cleanup_task_handle.must_cancel
       THEN /\ cleanup_task_handle' =
                  [cleanup_task_handle EXCEPT !.state = OnCancelledError,
                                              !.must_cancel = FALSE]
            /\ UNCHANGED <<_metadata, disk_metadata, files, lastOp>>
       ELSE /\ cleanup_expired
            /\ cleanup_task_handle' =
                  [cleanup_task_handle EXCEPT !.state = "sleeping",
                                              !.sweeps = SweepsCounted(@)]
    /\ UNCHANGED <<lifespan_pc, expire_arg, expire_hours, issued, now, ticks, download,
                   splitVars, podcast, svcVars>>

\* the cancellation reaches the sleeping task: CancelledError is raised at
\* "await asyncio.sleep(interval)"
CleanupTaskCancelled ==
    /\ cleanup_task_handle.state = "sleeping"
    /\ cleanup_task_handle.must_cancel
    /\ cleanup_task_handle' =
          [cleanup_task_handle EXCEPT !.state = OnCancelledError, !.must_cancel = FALSE]
    /\ UNCHANGED <<lifespan_pc, storeData, splitVars, podcast, svcVars>>

EndOnException == "finished"

\* "except Exception as e: logger.error(...)": the loop goes on with the
\* next sleep
OnException == "sleeping"

\* the task resumes after its sleep and cleanup_expired() raises: the
\* expired artifacts in reached were deleted, and for the last of them,
\* audio_id, _save_metadata raised after the entry had been removed from the
\* index; the exception leaves cleanup_expired and is logged by the task
CleanupTaskWakeRaises ==
    /\ cleanup_task_handle.state = "woken"
    /\ ~cleanup_task_handle.must_cancel
    /\ \E reached \in SUBSET ExpiredIds(_metadata, now) :
          \E audio_id \in reached :
             LET saved == DeleteAll(_metadata, files, reached \ {audio_id})
                 d == DeleteAudio(saved.md, saved.fs, audio_id)
             IN /\ _metadata' = d.md
                /\ files' = d.fs
                /\ disk_metadata' = IF reached = {audio_id} THEN disk_metadata ELSE saved.md
                /\ lastOp' = OpRecord("sweep_failed", audio_id, NoPath, {},
                                     Cardinality(reached), TRUE)
    /\ cleanup_task_handle' =
          [cleanup_task_handle EXCEPT !.state = OnException, !.sweeps = SweepsCounted(@)]
    /\ UNCHANGED <<lifespan_pc, expire_arg, expire_hours, issued, now, ticks, download,
                   splitVars, podcast, svcVars>>

\* lifespan after its yield: cleanup_task_handle.cancel(), then the await
LifespanShutdown ==
    /\ lifespan_pc = "serving"
    /\ cleanup_task_handle' =
          IF cleanup_task_handle.state \in TaskDone
          THEN cleanup_task_handle
          ELSE [cleanup_task_handle EXCEPT !.must_cancel = TRUE]
    /\ lifespan_pc' = "awaiting_task"
    /\ UNCHANGED <<storeData, splitVars, podcast, svcVars>>

\* what "await cleanup_task_handle" gives once the task has ended
AwaitOutcome(handle) ==
    IF handle.state = "finished" THEN "returned" ELSE "CancelledError"

\* the await of the ended task returns, or raises the CancelledError that
\* lifespan passes over; "Shutdown complete"
LifespanShutdownDone ==
    /\ lifespan_pc = "awaiting_task"
    /\ cleanup_task_handle.state \in TaskDone
    /\ lifespan_pc' = IF AwaitOutcome(cleanup_task_handle) \in {"returned", "CancelledError"}
                      THEN "complete" ELSE "failed"
    /\ UNCHANGED <<cleanup_task_handle, storeData, splitVars, podcast, svcVars>>

(***************************************************************************)
(* Generation service: api/services/tts_service.py (TTSService) behind the *)
(* routes of api/routers/tts.py.  Coroutines run one at a time on the      *)
(* event loop and give it up only at an await or a yield; the calls handed *)
(* to the executor run on its worker threads, concurrently with the loop.  *)
(***************************************************************************)
\* settings.worker_count: max_workers of the ThreadPoolExecutor
worker_count == 1

NumRequests == 2

MaxSegments == 3

RequestIds == 1..NumRequests

AnyVoiceStored == {"known", "unknown"}

\* the voice profiles the voice service holds
StoredVoices == {"known"}

\* a request: the route it came by, its text (and the number of segments
\* smart_split cuts it into), its voice reference and its save_result flag
AllRequests ==
    [mode : {"batch", "stream"},
     text : {"blank", "too_long", "ok"},
     nsegs : 1..MaxSegments,
     voice_uuid : {"None", "known", "unknown"},
     temp_audio_base64 : {"None", "valid", "invalid"},
     temp_prompt_text : {"None", "given"},
     save_result : BOOLEAN]

\* one representative of the requests that end before the segment loop, of
\* the requests whose reference audio is transcribed first, and of the
\* streaming requests that ask for the result to be saved
Requests ==
    {rq \in AllRequests :
        /\ rq.temp_prompt_text = "given" => rq.temp_audio_base64 = "valid"
        /\ (rq.mode = "stream" /\ rq.save_result) =>
              (rq.voice_uuid = "None" /\ rq.temp_audio_base64 = "None")
        /\ (rq.temp_audio_base64 = "valid" /\ rq.temp_prompt_text = "None")
              => (rq.nsegs = 1 /\ ~rq.save_result)
        /\ ( \/ rq.text # "ok"
             \/ rq.voice_uuid = "unknown"
             \/ rq.temp_audio_base64 = "invalid"
             \/ (rq.voice_uuid # "None" /\ rq.temp_audio_base64 # "None") )
           => (rq.nsegs = 1 /\ ~rq.save_result)
        /\ rq.text # "ok" =>
              (rq.voice_uuid = "None" /\ rq.temp_audio_base64 = "None") }

NoRequest ==
    [mode |-> "batch", text |-> "ok", nsegs |-> 1, voice_uuid |-> "None",
     temp_audio_base64 |-> "None", temp_prompt_text |-> "None", save_result |-> FALSE]

NoFuture == [state |-> "none", value |-> <<>>]

\* len(audio) / sample_rate, kept as the fraction <<samples, sample_rate>>
Duration(audio, sample_rate) == <<Len(audio), sample_rate>>

\* self._sample_rate, read from the loaded model
ModelSampleRate == CHOOSE sample_rate \in SampleRates : TRUE

NoResponse ==
    [status |-> "none", audio |-> <<>>, segments |-> 0, audio_id |-> 0,
     duration_seconds |-> Duration(<<>>, ModelSampleRate)]

ErrorResponse(status) ==
    [status |-> status, audio |-> <<>>, segments |-> 0, audio_id |-> 0,
     duration_seconds |-> Duration(<<>>, ModelSampleRate)]

\* the audio self._model.generate returns for segment seg of request r: an
\* array of samples, each one named after the call that produced it; later
\* segments are longer
Wav(r, seg) == [k \in 1..(7 * (seg + 1)) |-> <<r, seg, k>>]

\* segments = smart_split(text, ...), each segment named by its index
SegmentList(rq) == [k \in 1..rq.nsegs |-> k - 1]

CollectInFront(audios, wav) == <<wav>> \o audios

\* all_audio.append(wav)
Collect(audios, wav) == Append(audios, wav)

FirstAudioOnly(audios) == audios[1]

\* np.concatenate(all_audio) if len(all_audio) > 1 else all_audio[0]
FinalAudio(audios) == IF Len(audios) > 1 THEN Flatten(audios) ELSE audios[1]

\* round(len(wav) / sample_rate, 3), in thousandths of a second: the multiple
\* of 0.001 nearest to samples / sample_rate
round3(samples, sample_rate) == (2000 * samples + sample_rate) \div (2 * sample_rate)

total_duration_of_last(r, n) == IF n = 0 THEN 0 ELSE Len(Wav(r, n - 1))

\* total_duration after n segments: the sum of len(wav) / sample_rate of the
\* audios received, kept unrounded (as a sample count)
RECURSIVE total_duration(_, _)
total_duration(r, n) ==
    IF n = 0 THEN 0 ELSE total_duration(r, n - 1) + Len(Wav(r, n - 1))

\* the events of generate_streaming; duration is the "duration" of an
\* audio_chunk and the "total_duration_seconds" of a done event
AudioChunkEventZeroBased(i, wav) ==
    [event |-> "audio_chunk", segment |-> i, total_segments |-> 0,
     duration |-> round3(Len(wav), ModelSampleRate)]

ProgressEvent(i, total) ==
    [event |-> "progress", segment |-> i + 1, total_segments |-> total, duration |-> 0]

AudioChunkEvent(i, wav) ==
    [event |-> "audio_chunk", segment |-> i + 1, total_segments |-> 0,
     duration |-> round3(Len(wav), ModelSampleRate)]

DoneEvent(total, samples) ==
    [event |-> "done", segment |-> 0, total_segments |-> total,
     duration |-> round3(samples, ModelSampleRate)]

ErrorEvent == [event |-> "error", segment |-> 0, total_segments |-> 0, duration |-> 0]

ServiceIdle ==
    /\ _model = "None"
    /\ _asr_model = "None"
    /\ lock_owner = 0
    /\ lock_waiters = <<>>
    /\ ex_queue = <<>>
    /\ ex_running = {}
    /\ loop = 0
    /\ pc = [r \in RequestIds |-> "done"]
    /\ request = [r \in RequestIds |-> NoRequest]
    /\ fut = [r \in RequestIds |-> NoFuture]
    /\ seg_i = [r \in RequestIds |-> 0]
    /\ all_audio = [r \in RequestIds |-> <<>>]
    /\ events = [r \in RequestIds |-> <<>>]
    /\ temp_file = [r \in RequestIds |-> FALSE]
    /\ response = [r \in RequestIds |-> NoResponse]
    /\ dispatched = [r \in RequestIds |-> <<>>]
    /\ loads = [started |-> 0, failed |-> 0]

\* TTSService.__init__, and no request received yet
ServiceInit ==
    /\ _model = "None"
    /\ _asr_model = "None"
    /\ lock_owner = 0
    /\ lock_waiters = <<>>
    /\ ex_queue = <<>>
    /\ ex_running = {}
    /\ loop = 0
    /\ pc = [r \in RequestIds |-> "new"]
    /\ request = [r \in RequestIds |-> NoRequest]
    /\ fut = [r \in RequestIds |-> NoFuture]
    /\ seg_i = [r \in RequestIds |-> 0]
    /\ all_audio = [r \in RequestIds |-> <<>>]
    /\ events = [r \in RequestIds |-> <<>>]
    /\ temp_file = [r \in RequestIds |-> FALSE]
    /\ response = [r \in RequestIds |-> NoResponse]
    /\ dispatched = [r \in RequestIds |-> <<>>]
    /\ loads = [started |-> 0, failed |-> 0]

TreatedAsBatch(r) == TRUE

IsBatch(r) == request[r].mode = "batch"

SubmitWithNext(r, op, seg) ==
    /\ ex_queue' = ex_queue \o <<[req |-> r, op |-> op, seg |-> seg],
                                 [req |-> r, op |-> op, seg |-> seg + 1]>>
    /\ fut' = [fut EXCEPT ![r] = [state |-> "pending", value |-> <<>>]]
    /\ dispatched' = [dispatched EXCEPT ![r] = @ \o <<<<op, seg>>, <<op, seg + 1>>>>]
    /\ UNCHANGED ex_running

SubmitForFirstRequest(r, op, seg) ==
    /\ ex_queue' = Append(ex_queue, [req |-> 1, op |-> op, seg |-> seg])
    /\ fut' = [fut EXCEPT ![r] = [state |-> "pending", value |-> <<>>]]
    /\ dispatched' = [dispatched EXCEPT ![r] = Append(@, <<op, seg>>)]
    /\ UNCHANGED ex_running

\* loop.run_in_executor(self._executor, f)
Submit(r, op, seg) ==
    /\ ex_queue' = Append(ex_queue, [req |-> r, op |-> op, seg |-> seg])
    /\ fut' = [fut EXCEPT ![r] = [state |-> "pending", value |-> <<>>]]
    /\ dispatched' = [dispatched EXCEPT ![r] = Append(@, <<op, seg>>)]
    /\ UNCHANGED ex_running

\* the future's result has been consumed by the awaiting coroutine
Consume(r) ==
    /\ fut' = [fut EXCEPT ![r] = NoFuture]
    /\ UNCHANGED <<ex_queue, ex_running, dispatched>>

LockKeptByOwner == UNCHANGED lockVars

\* asyncio.Lock.release: the lock passes to the first waiter
Release ==
    IF lock_waiters = <<>>
    THEN lock_owner' = 0 /\ lock_waiters' = <<>>
    ELSE lock_owner' = Head(lock_waiters) /\ lock_waiters' = Tail(lock_waiters)

ValidateWithoutExclusivity(rq) ==
    IF rq.text = "blank" THEN "Text cannot be empty"
    ELSE IF rq.text = "too_long" THEN "Text too long"
    ELSE "None"

\* the request validation of generate_tts and generate_tts_stream:
\* the detail of the HTTP 400 it raises, or "None"
Validate(rq) ==
    IF rq.text = "blank" THEN "Text cannot be empty"
    ELSE IF rq.text = "too_long" THEN "Text too long"
    ELSE IF rq.voice_uuid # "None" /\ rq.temp_audio_base64 # "None"
         THEN "Cannot use both voice_uuid and temp_audio_base64"
    ELSE "None"

\* a request arrives at its route; requests are numbered in arrival order
Route(r) ==
    /\ loop = 0
    /\ pc[r] = "new"
    /\ \A q \in RequestIds : q < r => pc[q] # "new"
    /\ \E rq \in Requests :
          /\ request' = [request EXCEPT ![r] = rq]
          /\ IF Validate(rq) # "None"
             THEN /\ pc' = [pc EXCEPT ![r] = "done"]
                  /\ response' = [response EXCEPT ![r] = ErrorResponse("400")]
                  /\ loop' = 0
             ELSE /\ pc' = [pc EXCEPT ![r] =
                               IF rq.mode = "batch" THEN "ensure_model" ELSE "stream_start"]
                  /\ loop' = IF rq.mode = "batch" THEN r ELSE 0
                  /\ UNCHANGED response
    /\ UNCHANGED <<_model, _asr_model, lockVars, execVars, seg_i, all_audio, events,
                   temp_file, loads, splitVars, podcast, storeVars>>

\* the StreamingResponse starts to iterate generate_streaming
StreamStart(r) ==
    /\ loop = 0
    /\ pc[r] = "stream_start"
    /\ pc' = [pc EXCEPT ![r] = "ensure_model"]
    /\ loop' = r
    /\ UNCHANGED <<_model, _asr_model, lockVars, execVars, request, seg_i, all_audio,
                   events, temp_file, response, loads, splitVars, podcast, storeVars>>

\* the first test of _ensure_model_loaded
NeverLoaded(m) == FALSE

\* the test of _ensure_model_loaded before the lock
ModelLoaded(m) == m # "None"

RecheckSkipped(m) == FALSE

\* the test of _ensure_model_loaded repeated under the lock
ModelLoadedRecheck(m) == m # "None"

\* _ensure_model_loaded up to its first suspension
EnsureModelLoaded(r) ==
    /\ loop = r
    /\ pc[r] = "ensure_model"
    /\ IF ModelLoaded(_model)
       THEN /\ pc' = [pc EXCEPT ![r] = "resolve"]
            /\ UNCHANGED <<loop, lockVars, execVars>>
       ELSE IF lock_owner = 0
       THEN /\ lock_owner' = r
            /\ Submit(r, "load", 0)
            /\ pc' = [pc EXCEPT ![r] = "await_load"]
            /\ loop' = 0
            /\ UNCHANGED lock_waiters
       ELSE /\ lock_waiters' = Append(lock_waiters, r)
            /\ pc' = [pc EXCEPT ![r] = "wait_model_lock"]
            /\ loop' = 0
            /\ UNCHANGED <<lock_owner, execVars>>
    /\ UNCHANGED <<_model, _asr_model, request, seg_i, all_audio, events, temp_file,
                   response, loads, splitVars, podcast, storeVars>>

\* a waiter of _ensure_model_loaded gets the lock
ModelLockAcquired(r) ==
    /\ loop = 0
    /\ pc[r] = "wait_model_lock"
    /\ lock_owner = r
    /\ IF ModelLoadedRecheck(_model)
       THEN /\ Release
            /\ pc' = [pc EXCEPT ![r] = "resolve"]
            /\ loop' = r
            /\ UNCHANGED execVars
       ELSE /\ Submit(r, "load", 0)
            /\ pc' = [pc EXCEPT ![r] = "await_load"]
            /\ UNCHANGED <<loop, lockVars>>
    /\ UNCHANGED <<_model, _asr_model, request, seg_i, all_audio, events, temp_file,
                   response, loads, splitVars, podcast, storeVars>>

\* load_model has ended: self._model is set, or its exception leaves
\* _ensure_model_loaded, which generate and generate_streaming call
\* before their try
LoadDone(r) ==
    /\ loop = 0
    /\ pc[r] = "await_load"
    /\ fut[r].state \in {"ok", "error"}
    /\ Release
    /\ Consume(r)
    /\ IF fut[r].state = "ok"
       THEN /\ _model' = "VoxCPM"
            /\ pc' = [pc EXCEPT ![r] = "resolve"]
            /\ loop' = r
            /\ UNCHANGED response
       ELSE /\ pc' = [pc EXCEPT ![r] = "done"]
            /\ response' = [response EXCEPT ![r] =
                               ErrorResponse(IF IsBatch(r) THEN "500" ELSE "stream_raised")]
            /\ UNCHANGED <<_model, loop>>
    /\ UNCHANGED <<_asr_model, request, seg_i, all_audio, events, temp_file, loads,
                   splitVars, podcast, storeVars>>

KeepTempFile(r) == temp_file

\* the finally of generate and generate_streaming: the temporary file of
\* the request is unlinked if it exists
RemoveTempFile(r) == [temp_file EXCEPT ![r] = FALSE]

RaiseAndContinue(r, status) ==
    /\ loop' = 0
    /\ IF request[r].mode = "batch"
       THEN /\ pc' = [pc EXCEPT ![r] = "done"]
            /\ response' = [response EXCEPT ![r] = ErrorResponse(status)]
            /\ temp_file' = [temp_file EXCEPT ![r] = FALSE]
            /\ seg_i' = [seg_i EXCEPT ![r] = 0]
            /\ all_audio' = [all_audio EXCEPT ![r] = <<>>]
            /\ UNCHANGED events
       ELSE /\ pc' = [pc EXCEPT ![r] = "yield_chunk"]
            /\ events' = [events EXCEPT ![r] = Append(@, ErrorEvent)]
            /\ UNCHANGED <<response, temp_file, seg_i, all_audio>>

RaiseReturningPartial(r, status) ==
    /\ loop' = 0
    /\ IF request[r].mode = "batch"
       THEN /\ pc' = [pc EXCEPT ![r] = "done"]
            /\ response' = [response EXCEPT ![r] =
                               [status |-> "200", audio |-> all_audio[r],
                                segments |-> seg_i[r], audio_id |-> 0,
                                duration_seconds |-> Duration(<<>>, ModelSampleRate)]]
            /\ temp_file' = [temp_file EXCEPT ![r] = FALSE]
            /\ seg_i' = [seg_i EXCEPT ![r] = 0]
            /\ all_audio' = [all_audio EXCEPT ![r] = <<>>]
            /\ UNCHANGED events
       ELSE /\ pc' = [pc EXCEPT ![r] = "yield_error"]
            /\ events' = [events EXCEPT ![r] = Append(@, ErrorEvent)]
            /\ UNCHANGED <<response, temp_file, seg_i, all_audio>>

\* an exception inside the try of generate (the finally removes the temporary
\* file and the route answers with the status) or of generate_streaming (the
\* except yields an error event)
RaiseInTry(r, status) ==
    /\ loop' = 0
    /\ IF IsBatch(r)
       THEN /\ pc' = [pc EXCEPT ![r] = "done"]
            /\ response' = [response EXCEPT ![r] = ErrorResponse(status)]
            /\ temp_file' = RemoveTempFile(r)
            /\ seg_i' = [seg_i EXCEPT ![r] = 0]
            /\ all_audio' = [all_audio EXCEPT ![r] = <<>>]
            /\ UNCHANGED events
       ELSE /\ pc' = [pc EXCEPT ![r] = "yield_error"]
            /\ events' = [events EXCEPT ![r] = Append(@, ErrorEvent)]
            /\ UNCHANGED <<response, temp_file, seg_i, all_audio>>

\* the voice resolution of generate and generate_streaming
Resolve(r) ==
    /\ loop = r
    /\ pc[r] = "resolve"
    /\ LET rq == request[r]
       IN IF rq.voice_uuid # "None"
          THEN IF rq.voice_uuid \in StoredVoices
               THEN /\ pc' = [pc EXCEPT ![r] = "split"]
                    /\ UNCHANGED <<loop, temp_file, events, response, seg_i, all_audio>>
               ELSE RaiseInTry(r, "404")
          ELSE IF rq.temp_audio_base64 # "None"
          THEN IF rq.temp_audio_base64 = "invalid"
               THEN RaiseInTry(r, "404")
               ELSE /\ temp_file' = [temp_file EXCEPT ![r] = TRUE]
                    /\ pc' = [pc EXCEPT ![r] =
                                 IF rq.temp_prompt_text # "None" THEN "split"
                                 ELSE "ensure_asr"]
                    /\ UNCHANGED <<loop, events, response, seg_i, all_audio>>
          ELSE /\ pc' = [pc EXCEPT ![r] = "split"]
               /\ UNCHANGED <<loop, temp_file, events, response, seg_i, all_audio>>
    /\ UNCHANGED <<_model, _asr_model, lockVars, execVars, request, loads,
                   splitVars, podcast, storeVars>>

\* recognize_prompt_text: _ensure_asr_loaded up to its first suspension, then do_asr
EnsureAsrLoaded(r) ==
    /\ loop = r
    /\ pc[r] = "ensure_asr"
    /\ loop' = 0
    /\ IF _asr_model # "None"
       THEN /\ Submit(r, "asr", 0)
            /\ pc' = [pc EXCEPT ![r] = "await_asr"]
            /\ UNCHANGED lockVars
       ELSE IF lock_owner = 0
       THEN /\ lock_owner' = r
            /\ Submit(r, "asr_load", 0)
            /\ pc' = [pc EXCEPT ![r] = "await_asr_load"]
            /\ UNCHANGED lock_waiters
       ELSE /\ lock_waiters' = Append(lock_waiters, r)
            /\ pc' = [pc EXCEPT ![r] = "wait_asr_lock"]
            /\ UNCHANGED <<lock_owner, execVars>>
    /\ UNCHANGED <<_model, _asr_model, request, seg_i, all_audio, events, temp_file,
                   response, loads, splitVars, podcast, storeVars>>

\* a waiter of _ensure_asr_loaded gets the lock
AsrLockAcquired(r) ==
    /\ loop = 0
    /\ pc[r] = "wait_asr_lock"
    /\ lock_owner = r
    /\ IF _asr_model # "None"
       THEN /\ Release
            /\ Submit(r, "asr", 0)
            /\ pc' = [pc EXCEPT ![r] = "await_asr"]
       ELSE /\ Submit(r, "asr_load", 0)
            /\ pc' = [pc EXCEPT ![r] = "await_asr_load"]
            /\ UNCHANGED lockVars
    /\ UNCHANGED <<_model, _asr_model, loop, request, seg_i, all_audio, events,
                   temp_file, response, loads, splitVars, podcast, storeVars>>

\* load_asr has ended
AsrLoadDone(r) ==
    /\ loop = 0
    /\ pc[r] = "await_asr_load"
    /\ fut[r].state \in {"ok", "error"}
    /\ Release
    /\ IF fut[r].state = "ok"
       THEN /\ _asr_model' = "AutoModel"
            /\ Submit(r, "asr", 0)
            /\ pc' = [pc EXCEPT ![r] = "await_asr"]
            /\ UNCHANGED <<loop, events, temp_file, response, seg_i, all_audio>>
       ELSE /\ Consume(r)
            /\ RaiseInTry(r, "500")
            /\ UNCHANGED _asr_model
    /\ UNCHANGED <<_model, request, loads, splitVars, podcast, storeVars>>

\* do_asr has ended
AsrDone(r) ==
    /\ loop = 0
    /\ pc[r] = "await_asr"
    /\ fut[r].state \in {"ok", "error"}
    /\ Consume(r)
    /\ IF fut[r].state = "ok"
       THEN /\ pc' = [pc EXCEPT ![r] = "split"]
            /\ loop' = r
            /\ UNCHANGED <<events, temp_file, response, seg_i, all_audio>>
       ELSE RaiseInTry(r, "500")
    /\ UNCHANGED <<_model, _asr_model, lockVars, request, loads, splitVars, podcast, storeVars>>

\* segments = smart_split(text, ...): the segments are numbered 0..nsegs-1
Split(r) ==
    /\ loop = r
    /\ pc[r] = "split"
    /\ seg_i' = [seg_i EXCEPT ![r] = 0]
    /\ pc' = [pc EXCEPT ![r] = "loop_head"]
    /\ UNCHANGED <<_model, _asr_model, lockVars, execVars, loop, request, all_audio,
                   events, temp_file, response, loads, splitVars, podcast, storeVars>>

\* generate: the next segment is handed to the executor
BatchDispatch(r) ==
    /\ loop = r
    /\ pc[r] = "loop_head"
    /\ IsBatch(r)
    /\ seg_i[r] < request[r].nsegs
    /\ Submit(r, "infer", seg_i[r])
    /\ pc' = [pc EXCEPT ![r] = "await_infer"]
    /\ loop' = 0
    /\ UNCHANGED <<_model, _asr_model, lockVars, request, seg_i, all_audio, events,
                   temp_file, response, loads, splitVars, podcast, storeVars>>

\* generate_streaming: the progress event of the next segment
StreamProgress(r) ==
    /\ loop = r
    /\ pc[r] = "loop_head"
    /\ ~IsBatch(r)
    /\ seg_i[r] < request[r].nsegs
    /\ events' = [events EXCEPT ![r] = Append(@, ProgressEvent(seg_i[r], request[r].nsegs))]
    /\ pc' = [pc EXCEPT ![r] = "yield_progress"]
    /\ loop' = 0
    /\ UNCHANGED <<_model, _asr_model, lockVars, execVars, request, seg_i, all_audio,
                   temp_file, response, loads, splitVars, podcast, storeVars>>

\* generate_streaming resumes after the progress event and hands the segment
\* to the executor
StreamDispatch(r) ==
    /\ loop = 0
    /\ pc[r] = "yield_progress"
    /\ Submit(r, "infer", seg_i[r])
    /\ pc' = [pc EXCEPT ![r] = "await_infer"]
    /\ UNCHANGED <<_model, _asr_model, lockVars, loop, request, seg_i, all_audio, events,
                   temp_file, response, loads, splitVars, podcast, storeVars>>

\* generate: generate_segment has ended
BatchInferDone(r) ==
    /\ loop = 0
    /\ pc[r] = "await_infer"
    /\ IsBatch(r)
    /\ fut[r].state \in {"ok", "error"}
    /\ Consume(r)
    /\ IF fut[r].state = "ok"
       THEN /\ all_audio' = [all_audio EXCEPT ![r] = Collect(@, fut[r].value)]
            /\ seg_i' = [seg_i EXCEPT ![r] = @ + 1]
            /\ pc' = [pc EXCEPT ![r] = "loop_head"]
            /\ loop' = r
            /\ UNCHANGED <<events, temp_file, response>>
       ELSE RaiseInTry(r, "500")
    /\ UNCHANGED <<_model, _asr_model, lockVars, request, loads, splitVars, podcast, storeVars>>

\* generate_streaming: generate_segment has ended; the audio is encoded
\* (sf.write may raise) and the audio_chunk event yielded
StreamInferDone(r) ==
    /\ loop = 0
    /\ pc[r] = "await_infer"
    /\ ~IsBatch(r)
    /\ fut[r].state \in {"ok", "error"}
    /\ Consume(r)
    /\ \E encoded \in BOOLEAN :
          IF fut[r].state = "ok" /\ encoded
          THEN /\ events' = [events EXCEPT ![r] = Append(@, AudioChunkEvent(seg_i[r], fut[r].value))]
               /\ pc' = [pc EXCEPT ![r] = "yield_chunk"]
               /\ UNCHANGED <<loop, temp_file, response, seg_i, all_audio>>
          ELSE RaiseInTry(r, "500")
    /\ UNCHANGED <<_model, _asr_model, lockVars, request, loads, splitVars, podcast, storeVars>>

\* generate_streaming resumes after the audio_chunk event
StreamNext(r) ==
    /\ loop = 0
    /\ pc[r] = "yield_chunk"
    /\ seg_i' = [seg_i EXCEPT ![r] = @ + 1]
    /\ pc' = [pc EXCEPT ![r] = "loop_head"]
    /\ loop' = r
    /\ UNCHANGED <<_model, _asr_model, lockVars, execVars, request, all_audio, events,
                   temp_file, response, loads, splitVars, podcast, storeVars>>

\* generate_streaming: the done event after the last segment
StreamDone(r) ==
    /\ loop = r
    /\ pc[r] = "loop_head"
    /\ ~IsBatch(r)
    /\ seg_i[r] >= request[r].nsegs
    /\ events' = [events EXCEPT ![r] = Append(@, DoneEvent(request[r].nsegs,
                                                      total_duration(r, request[r].nsegs)))]
    /\ pc' = [pc EXCEPT ![r] = "yield_done"]
    /\ loop' = 0
    /\ UNCHANGED <<_model, _asr_model, lockVars, execVars, request, seg_i, all_audio,
                   temp_file, response, loads, splitVars, podcast, storeVars>>

\* generate_streaming resumes after its done or error event: the finally
\* removes the temporary file and the generator ends
StreamClose(r) ==
    /\ loop = 0
    /\ pc[r] \in {"yield_done", "yield_error"}
    /\ temp_file' = RemoveTempFile(r)
    /\ pc' = [pc EXCEPT ![r] = "done"]
    /\ response' = [response EXCEPT ![r] = ErrorResponse("stream_closed")]
    /\ seg_i' = [seg_i EXCEPT ![r] = 0]
    /\ UNCHANGED <<_model, _asr_model, lockVars, execVars, loop, request, all_audio,
                   events, loads, splitVars, podcast, storeVars>>

\* generate returns after the last segment (the finally removes the
\* temporary file) and generate_tts builds the response, saving the audio
\* when save_result is set; duration_seconds is the value computed from the
\* audio, which the store receives as it is and the answer shows rounded to
\* milliseconds
BatchReturn(r) ==
    /\ loop = r
    /\ pc[r] = "loop_head"
    /\ IsBatch(r)
    /\ seg_i[r] >= request[r].nsegs
    /\ LET final_audio == FinalAudio(all_audio[r])
           sample_rate == ModelSampleRate
           segs == SegmentList(request[r])
           duration_seconds == Duration(final_audio, sample_rate)
       IN IF request[r].save_result
          THEN \E audio_id \in AudioIds \ issued, format \in Formats :
                  /\ issued' = issued \cup {audio_id}
                  /\ save_audio(audio_id, format, sample_rate, duration_seconds)
                  /\ response' = [response EXCEPT ![r] =
                                     [status |-> "200", audio |-> final_audio,
                                      segments |-> Len(segs),
                                      audio_id |-> audio_id,
                                      duration_seconds |-> duration_seconds]]
          ELSE /\ response' = [response EXCEPT ![r] =
                                  [status |-> "200", audio |-> final_audio,
                                   segments |-> Len(segs), audio_id |-> 0,
                                   duration_seconds |-> duration_seconds]]
               /\ UNCHANGED <<issued, files, _metadata, disk_metadata, lastOp>>
    /\ temp_file' = RemoveTempFile(r)
    /\ all_audio' = [all_audio EXCEPT ![r] = <<>>]
    /\ seg_i' = [seg_i EXCEPT ![r] = 0]
    /\ pc' = [pc EXCEPT ![r] = "done"]
    /\ loop' = 0
    /\ UNCHANGED <<_model, _asr_model, lockVars, execVars, request, events, loads,
                   expire_arg, expire_hours, now, ticks, download, taskVars, splitVars, podcast>>

\* the positions at which a request is suspended in an await
AwaitPositions ==
    {"wait_model_lock", "await_load", "wait_asr_lock", "await_asr_load", "await_asr",
     "await_infer"}

\* the positions at which generate_streaming is suspended in a yield
YieldPositions == {"yield_progress", "yield_chunk", "yield_done", "yield_error"}

\* the positions inside the try of generate and generate_streaming
TryPositions ==
    {"ensure_asr", "wait_asr_lock", "await_asr_load", "await_asr", "split", "loop_head",
     "await_infer"} \cup YieldPositions

\* the request leaves "async with self._model_lock" by an exception while it
\* holds the lock or waits for it
LeaveLock(r) ==
    IF lock_owner = r THEN Release
    ELSE /\ lock_waiters' = SelectSeq(lock_waiters, LAMBDA q : q # r)
         /\ UNCHANGED lock_owner

RunningAbortedWith(r) == {task \in ex_running : task.req # r}

\* the calls running on worker threads after the task of request r was
\* cancelled: a cancelled future does not stop a call that has started
RunningAfterCancel(r) == ex_running

\* the task of the request is cancelled while it is suspended in an await:
\* CancelledError is raised there, passes the "except Exception" of
\* generate_streaming, releases the lock if held and runs the finally
\* when raised inside the try; the awaited future is cancelled, so its
\* call is dropped unless a worker thread is already running it
Cancel(r) ==
    /\ loop = 0
    /\ pc[r] \in AwaitPositions
    /\ LeaveLock(r)
    /\ ex_queue' = SelectSeq(ex_queue, LAMBDA task : task.req # r)
    /\ fut' = [fut EXCEPT ![r] = NoFuture]
    /\ temp_file' = IF pc[r] \in TryPositions THEN RemoveTempFile(r) ELSE temp_file
    /\ pc' = [pc EXCEPT ![r] = "done"]
    /\ response' = [response EXCEPT ![r] = ErrorResponse("cancelled")]
    /\ seg_i' = [seg_i EXCEPT ![r] = 0]
    /\ all_audio' = [all_audio EXCEPT ![r] = <<>>]
    /\ ex_running' = RunningAfterCancel(r)
    /\ UNCHANGED <<_model, _asr_model, dispatched, loop, request, events,
                   loads, splitVars, podcast, storeVars>>

\* the consumer abandons the stream while generate_streaming is suspended in
\* a yield: the generator is closed, GeneratorExit is raised at the yield
\* and the finally runs
StreamAbandon(r) ==
    /\ loop = 0
    /\ pc[r] \in YieldPositions
    /\ temp_file' = RemoveTempFile(r)
    /\ pc' = [pc EXCEPT ![r] = "done"]
    /\ response' = [response EXCEPT ![r] = ErrorResponse("abandoned")]
    /\ seg_i' = [seg_i EXCEPT ![r] = 0]
    /\ UNCHANGED <<_model, _asr_model, lockVars, execVars, loop, request, all_audio,
                   events, loads, splitVars, podcast, storeVars>>

AlwaysIdleWorker(running) == TRUE

\* ThreadPoolExecutor(max_workers=settings.worker_count): a queued call
\* starts only on a thread that is not running another call
HasIdleWorker(running) == Cardinality(running) < worker_count

\* a worker thread of the executor takes the next call
WorkerStart ==
    /\ ex_queue # <<>>
    /\ HasIdleWorker(ex_running)
    /\ ex_running' = ex_running \cup {Head(ex_queue)}
    /\ ex_queue' = Tail(ex_queue)
    /\ loads' = IF Head(ex_queue).op = "load"
                THEN [loads EXCEPT !.started = @ + 1] ELSE loads
    /\ UNCHANGED <<_model, _asr_model, lockVars, fut, dispatched, loop, reqVars,
                   splitVars, podcast, storeVars>>

\* a call into the external model returns or raises, and its future is set
\* (nobody is left to receive it when the awaiting task was cancelled)
WorkerFinish ==
    \E task \in ex_running, ok \in BOOLEAN :
        /\ ex_running' = ex_running \ {task}
        /\ fut' = IF pc[task.req] = "done"
                   THEN fut
                   ELSE [fut EXCEPT ![task.req] =
                            IF ok
                            THEN [state |-> "ok",
                                  value |-> IF task.op = "infer"
                                            THEN Wav(task.req, task.seg) ELSE <<>>]
                            ELSE [state |-> "error", value |-> <<>>]]
        /\ loads' = IF task.op = "load" /\ ~ok
                    THEN [loads EXCEPT !.failed = @ + 1] ELSE loads
        /\ UNCHANGED <<_model, _asr_model, lockVars, ex_queue, dispatched, loop, reqVars,
                       splitVars, podcast, storeVars>>

(***************************************************************************)
(* Podcast route: api/routers/v2.py, generate_podcast.  The handler awaits *)
(* tts_service.generate once per segment, in segment_index order, and      *)
(* saves the concatenated audio as one artifact.  A call of generate is    *)
(* one step here: it returns an audio of some length or raises.            *)
(***************************************************************************)
MaxPodcastSegments == 3

\* the segment_index values of a request; indices may repeat and have gaps
PodcastIndices == {0, 1, 3}

\* the segment_index of the segments of a request, in the order sent
PodcastInputs == UNION {[1..n -> PodcastIndices] : n \in 0..MaxPodcastSegments}

\* len(audio) of what tts_service.generate returns: 0 ms, 1 ms and 1000 ms
\* at 16000 samples per second
AudioLengths == {8, 24, 16008}

NoPodcastResponse ==
    [success |-> FALSE, error |-> "none", audio_id |-> 0, duration_ms |-> 0,
     segments |-> <<>>]

NoPodcast ==
    [pc |-> "none", voice_id |-> "None", output_format |-> "mp3", segments |-> <<>>,
     sorted_segments |-> <<>>, current_time_ms |-> 0, timeline_results |-> <<>>,
     all_audio_chunks |-> <<>>, response |-> NoPodcastResponse]

PodcastIdle == podcast = NoPodcast

\* no podcast request received yet
PodcastInit == podcast = [NoPodcast EXCEPT !.pc = "new"]

InRequestOrder(segs) == segs

\* s put behind the last element whose segment_index is not greater
InsertByIndex(sorted_segs, s) ==
    LET k == Cardinality({j \in 1..Len(sorted_segs) :
                             sorted_segs[j].segment_index <= s.segment_index})
    IN SubSeq(sorted_segs, 1, k) \o <<s>> \o SubSeq(sorted_segs, k + 1, Len(sorted_segs))

\* sorted(request.segments, key=lambda s: s.segment_index): a stable sort
RECURSIVE sorted_segments(_)
sorted_segments(segs) ==
    IF segs = <<>> THEN <<>>
    ELSE InsertByIndex(sorted_segments(SubSeq(segs, 1, Len(segs) - 1)), segs[Len(segs)])

\* int(duration_samples / sample_rate * 1000)
duration_ms(duration_samples, sample_rate) == (duration_samples * 1000) \div sample_rate

\* PodcastSegmentTimeline(segment_index, start_time_ms, end_time_ms)
PodcastSegmentTimeline(segment_index, start_time_ms, end_time_ms) ==
    [segment_index |-> segment_index, start_time_ms |-> start_time_ms,
     end_time_ms |-> end_time_ms]

\* PodcastGenerateResponse(success=False, data=None, error=...): the handler ends
PodcastFailure(p, error) ==
    [p EXCEPT !.pc = "done", !.response = [NoPodcastResponse EXCEPT !.error = error]]

\* generate_podcast up to its first await: the voice and the segments are
\* validated and the segments sorted
GeneratePodcast ==
    /\ podcast.pc = "new"
    /\ \E voice_id \in {"known", "unknown"}, indices \in PodcastInputs,
          output_format \in Formats :
          LET received ==
                  [podcast EXCEPT
                      !.voice_id = voice_id,
                      !.output_format = output_format,
                      !.segments = [k \in 1..Len(indices) |->
                                       [segment_index |-> indices[k], content |-> k]]]
          IN podcast' =
                IF voice_id = "unknown" THEN PodcastFailure(received, "voice not found")
                ELSE IF received.segments = <<>>
                     THEN PodcastFailure(received, "segments empty")
                     ELSE [received EXCEPT
                              !.pc = "ensure_model",
                              !.sorted_segments = sorted_segments(received.segments)]
    /\ UNCHANGED <<splitVars, storeVars, svcVars>>

\* await tts_service._ensure_model_loaded() returns or raises
PodcastModelLoaded ==
    /\ podcast.pc = "ensure_model"
    /\ \E loaded \in BOOLEAN :
          podcast' = IF loaded THEN [podcast EXCEPT !.pc = "loop"]
                     ELSE PodcastFailure(podcast, "Exception")
    /\ UNCHANGED <<splitVars, storeVars, svcVars>>

\* one pass of the segment loop: await tts_service.generate(...) returns the
\* audio of the next segment, whose timeline entry is recorded, or raises
PodcastSegment ==
    /\ podcast.pc = "loop"
    /\ Len(podcast.timeline_results) < Len(podcast.sorted_segments)
    /\ \E outcome \in {"audio", "ValueError", "Exception"}, duration_samples \in AudioLengths :
          LET seg == podcast.sorted_segments[Len(podcast.timeline_results) + 1]
              ms == duration_ms(duration_samples, ModelSampleRate)
          IN podcast' =
                IF outcome = "audio"
                THEN [podcast EXCEPT
                         !.timeline_results =
                             Append(@, PodcastSegmentTimeline(seg.segment_index,
                                                              podcast.current_time_ms,
                                                              podcast.current_time_ms + ms)),
                         !.current_time_ms = @ + ms,
                         !.all_audio_chunks = Append(@, duration_samples)]
                ELSE PodcastFailure(podcast, outcome)
    /\ UNCHANGED <<splitVars, storeVars, svcVars>>

\* after the loop: the audio is encoded (audio_to_bytes may raise) and saved
\* under a fresh id (save_audio may raise), and the success response built
PodcastSave ==
    /\ podcast.pc = "loop"
    /\ Len(podcast.timeline_results) = Len(podcast.sorted_segments)
    /\ \E audio_id \in AudioIds \ issued :
          /\ issued' = issued \cup {audio_id}
          /\ \/ /\ save_audio(audio_id, podcast.output_format, ModelSampleRate,
                               <<podcast.current_time_ms, 1000>>)
                /\ podcast' =
                      [podcast EXCEPT
                          !.pc = "done",
                          !.response = [success |-> TRUE, error |-> "None",
                                        audio_id |-> audio_id,
                                        duration_ms |-> podcast.current_time_ms,
                                        segments |-> podcast.timeline_results]]
             \/ /\ save_audio_write_error(audio_id, podcast.output_format,
                                           ModelSampleRate,
                                           <<podcast.current_time_ms, 1000>>)
                /\ podcast' = PodcastFailure(podcast, "Exception")
             \/ /\ UNCHANGED <<files, _metadata, disk_metadata, lastOp>>
                /\ podcast' = PodcastFailure(podcast, "ValueError")
    /\ UNCHANGED <<expire_arg, expire_hours, now, ticks, download, taskVars, splitVars,
                   svcVars>>

PodcastNext ==
    \/ GeneratePodcast
    \/ PodcastModelLoaded
    \/ PodcastSegment
    \/ PodcastSave

PodcastOnlyInit == PodcastInit /\ StoreInit /\ LifespanIdle /\ SplitIdle /\ ServiceIdle

PodcastSpec == PodcastOnlyInit /\ [][PodcastNext]_vars

(***************************************************************************)
(* Specifications                                                          *)
(***************************************************************************)
SplitNext == SmartSplit

SplitOnlyInit == SplitInit /\ StoreIdle /\ ServiceIdle /\ PodcastIdle

SplitSpec == SplitOnlyInit /\ [][SplitNext]_vars

StoreNext ==
    \/ SaveAudio
    \/ GetAudioPath
    \/ GetAudioInfo
    \/ CleanupExpired
    \/ DownloadAudio
    \/ Tick

StoreOnlyInit == StoreInit /\ LifespanIdle /\ SplitIdle /\ ServiceIdle /\ PodcastIdle

StoreSpec == StoreOnlyInit /\ [][StoreNext]_vars

\* the application from startup to shutdown with its sweep task, artifacts
\* being saved and time passing
LifespanNext ==
    \/ LifespanStartup
    \/ CleanupTaskStart
    \/ TimerFires
    \/ CleanupTaskWake
    \/ CleanupTaskCancelled
    \/ LifespanShutdown
    \/ LifespanShutdownDone
    \/ SaveAudio
    \/ Tick

LifespanInit ==
    /\ StoreInit
    /\ cleanup_task_handle = NoTask
    /\ lifespan_pc = "startup"
    /\ SplitIdle
    /\ ServiceIdle
    /\ PodcastIdle

\* the event loop runs every step that is ready: the steps of the task and
\* the resumption of lifespan are taken when they stay enabled
LifespanSpec ==
    /\ LifespanInit
    /\ [][LifespanNext]_vars
    /\ WF_vars(CleanupTaskStart)
    /\ WF_vars(CleanupTaskWake)
    /\ WF_vars(CleanupTaskCancelled)
    /\ WF_vars(LifespanShutdownDone)

Next ==
    \/ \E r \in RequestIds :
          \/ Route(r)
          \/ StreamStart(r)
          \/ EnsureModelLoaded(r)
          \/ ModelLockAcquired(r)
          \/ LoadDone(r)
          \/ Resolve(r)
          \/ EnsureAsrLoaded(r)
          \/ AsrLockAcquired(r)
          \/ AsrLoadDone(r)
          \/ AsrDone(r)
          \/ Split(r)
          \/ BatchDispatch(r)
          \/ StreamProgress(r)
          \/ StreamDispatch(r)
          \/ BatchInferDone(r)
          \/ StreamInferDone(r)
          \/ StreamNext(r)
          \/ StreamDone(r)
          \/ StreamClose(r)
          \/ BatchReturn(r)
    \/ WorkerStart
    \/ WorkerFinish

Init == ServiceInit /\ StoreIdle /\ SplitIdle /\ PodcastIdle

Spec == Init /\ [][Next]_vars

\* the service with requests that are cancelled or abandoned
CancelNext ==
    \/ Next
    \/ \E r \in RequestIds :
          \/ Cancel(r)
          \/ StreamAbandon(r)

CancelInit == ServiceInit /\ StoreIdle /\ SplitIdle /\ PodcastIdle

CancelSpec == CancelInit /\ [][CancelNext]_vars

(***************************************************************************)
(* Claims about the generation service                                     *)
(***************************************************************************)
\* the request has come back from _ensure_model_loaded
EnsureReturned(r) ==
    /\ pc[r] \notin {"new", "stream_start", "ensure_model", "wait_model_lock", "await_load"}
    /\ response[r].status \notin {"400", "stream_raised"}
    /\ ~(response[r].status = "500" /\ dispatched[r] # <<>>
           /\ dispatched[r][Len(dispatched[r])] = <<"load", 0>>)

\* C1: as long as no load has failed, load_model is executed at most once
\* however many requests call _ensure_model_loaded together, and every
\* caller that has come back from it finds the model loaded by that one
\* execution.
C1_ConcurrentEnsureLoadsOnce ==
    loads.failed = 0 =>
        /\ loads.started <= 1
        /\ \A r \in RequestIds :
              EnsureReturned(r) => (_model = "VoxCPM" /\ loads.started = 1)

\* a caller that waited for the lock is handed it after the other caller's load
C1_Witness ==
    /\ loads.failed = 0
    /\ loads.started = 1
    /\ _model = "VoxCPM"
    /\ \E r, q \in RequestIds :
          /\ pc[r] = "wait_model_lock"
          /\ lock_owner = r
          /\ q # r
          /\ EnsureReturned(q)
          /\ <<"load", 0>> = dispatched[q][1]

\* the kind of an event and the segment number it carries
RECURSIVE Tags(_)
Tags(es) ==
    IF es = <<>> THEN <<>>
    ELSE <<<<Head(es).event, Head(es).segment>>>> \o Tags(Tail(es))

\* a streaming request of three segments that ended without a failure
ThreeSegmentStreamDone(r) ==
    /\ request[r].mode = "stream"
    /\ request[r].nsegs = 3
    /\ pc[r] = "done"
    /\ response[r].status = "stream_closed"
    /\ \A k \in 1..Len(events[r]) : events[r][k].event # "error"

\* C2 as amended: a streaming generation of three segments without failure
\* yields exactly progress, audio_chunk for segment numbers 1, 2, 3 in turn
\* and then done.
C2_StreamEventOrderOneBased ==
    \A r \in RequestIds :
        ThreeSegmentStreamDone(r) =>
            Tags(events[r]) =
                << <<"progress", 1>>, <<"audio_chunk", 1>>,
                   <<"progress", 2>>, <<"audio_chunk", 2>>,
                   <<"progress", 3>>, <<"audio_chunk", 3>>, <<"done", 0>> >>

\* such a stream has ended while the other request used the executor
C2_Witness ==
    \E r, q \in RequestIds :
        /\ ThreeSegmentStreamDone(r)
        /\ q # r
        /\ pc[q] = "await_infer"
        /\ Len(dispatched[q]) >= 2

\* C2 as stated: the events carry the segment indices 0, 1, 2.
C2_StreamEventOrderZeroBased ==
    \A r \in RequestIds :
        ThreeSegmentStreamDone(r) =>
            Tags(events[r]) =
                << <<"progress", 0>>, <<"audio_chunk", 0>>,
                   <<"progress", 1>>, <<"audio_chunk", 1>>,
                   <<"progress", 2>>, <<"audio_chunk", 2>>, <<"done", 0>> >>

\* the streaming request passed the route's validation and its generator has
\* ended without a done event
StreamFailed(r) ==
    /\ request[r].mode = "stream"
    /\ pc[r] = "done"
    /\ response[r].status # "400"
    /\ \A k \in 1..Len(events[r]) : events[r][k].event # "done"

\* C3: a streaming generation that fails has yielded exactly one error
\* event, and that event is its last.
C3_StreamFailureYieldsOneError ==
    \A r \in RequestIds :
        StreamFailed(r) =>
            /\ events[r] # <<>>
            /\ events[r][Len(events[r])].event = "error"
            /\ Cardinality({k \in 1..Len(events[r]) : events[r][k].event = "error"}) = 1

\* C4: in the events of a streaming generation a done or error event is
\* always the last one: there is at most one of them and none follows it.
C4_TerminalEventIsLast ==
    \A r \in RequestIds :
        \A k \in 1..Len(events[r]) :
            events[r][k].event \in {"done", "error"} => k = Len(events[r])

\* a stream that failed after it had delivered a segment, and one that ended with done
C4_Witness ==
    \E r, q \in RequestIds :
        /\ pc[r] = "done" /\ pc[q] = "done"
        /\ Len(events[r]) >= 3
        /\ events[r][Len(events[r])].event = "error"
        /\ events[q] # <<>>
        /\ events[q][Len(events[q])].event = "done"

\* C5: when generate_segment of a batch request raises, the request ends
\* with an error answer that carries no audio and no segment count, and
\* nothing is written to the store.
C5_BatchFailureReturnsNothing ==
    [][\A r \in RequestIds :
          ( /\ request[r].mode = "batch"
            /\ pc[r] = "await_infer"
            /\ fut[r].state = "error"
            /\ pc'[r] # pc[r] )
          => ( /\ pc'[r] = "done"
               /\ response'[r].status \notin {"none", "200"}
               /\ response'[r].audio = <<>>
               /\ response'[r].segments = 0
               /\ response'[r].audio_id = 0
               /\ UNCHANGED <<files, _metadata, disk_metadata, issued>> )]_vars

\* a batch request with save_result whose second or later segment failed
C5_Witness ==
    \E r \in RequestIds :
        /\ request[r].mode = "batch"
        /\ request[r].save_result
        /\ pc[r] = "done"
        /\ response[r].status = "500"
        /\ Len(dispatched[r]) >= 2
        /\ dispatched[r][Len(dispatched[r])][1] = "infer"
        /\ dispatched[r][Len(dispatched[r])][2] >= 1

BothSet(rq) == rq.voice_uuid # "None" /\ rq.temp_audio_base64 # "None"

\* C10: a request with both voice_uuid and temp_audio_base64 is answered
\* with HTTP 400 and never submits a call (load, recognition, inference) to
\* the executor.
C10_BothReferencesRejected ==
    \A r \in RequestIds :
        (pc[r] # "new" /\ BothSet(request[r])) =>
            /\ pc[r] = "done"
            /\ response[r].status = "400"
            /\ dispatched[r] = <<>>
            /\ events[r] = <<>>

\* both routes have rejected such a request
C10_Witness ==
    \E r, q \in RequestIds :
        /\ BothSet(request[r]) /\ request[r].mode = "batch" /\ pc[r] = "done"
        /\ BothSet(request[q]) /\ request[q].mode = "stream" /\ pc[q] = "done"

\* the audios generate_segment produced for the segments 0 .. n-1 of request r
RECURSIVE SegmentAudios(_, _)
SegmentAudios(r, n) ==
    IF n = 0 THEN <<>> ELSE Append(SegmentAudios(r, n - 1), Wav(r, n - 1))

RECURSIVE SumOfLengths(_)
SumOfLengths(audios) ==
    IF audios = <<>> THEN 0 ELSE Len(Head(audios)) + SumOfLengths(Tail(audios))

\* the inference calls a request has submitted, in order
InferCalls(r) == SelectSeq(dispatched[r], LAMBDA call : call[1] = "infer")

\* C15: the duration of a successful batch answer, the sample count of its
\* audio over the sample rate, is the sum of the sample counts of the
\* audios produced for the segments of the request over the sample rate.
C15_DurationIsSumOfSegments ==
    \A r \in RequestIds :
        (IsBatch(r) /\ response[r].status = "200") =>
            /\ response[r].duration_seconds =
                   Duration(response[r].audio, ModelSampleRate)
            /\ response[r].duration_seconds[1] =
                   SumOfLengths(SegmentAudios(r, request[r].nsegs))

\* two batch requests of two and three segments have both been answered
C15_Witness ==
    \E r, q \in RequestIds :
        /\ IsBatch(r) /\ response[r].status = "200" /\ request[r].nsegs = 3
        /\ IsBatch(q) /\ response[q].status = "200" /\ request[q].nsegs = 2
        /\ response[r].duration_seconds[1] = 42
        /\ response[q].duration_seconds[1] = 21

\* C16: the audio of a successful batch answer is the concatenation of the
\* audios produced for segment 0, 1, ... of the request in that order, one
\* inference call per segment having been submitted in that order, and the
\* answer counts exactly the segments of the segmenter's list.
C16_AudioIsOrderedConcatenation ==
    \A r \in RequestIds :
        (IsBatch(r) /\ response[r].status = "200") =>
            /\ response[r].audio = Flatten(SegmentAudios(r, request[r].nsegs))
            /\ InferCalls(r) =
                   [k \in 1..request[r].nsegs |-> <<"infer", SegmentList(request[r])[k]>>]
            /\ response[r].segments = Len(SegmentList(request[r]))

\* a batch request of three segments was answered while the inference calls
\* of the other request ran between its own
C16_Witness ==
    \E r, q \in RequestIds :
        /\ IsBatch(r) /\ response[r].status = "200" /\ request[r].nsegs = 3
        /\ q # r
        /\ Len(InferCalls(q)) >= 2
        /\ pc[q] \in {"await_infer", "yield_chunk"}
        /\ request[r].save_result
        /\ response[r].audio_id \in DOMAIN _metadata

\* C12: when load_model fails, the caller that awaited it ends with that
\* failure, self._model stays None and the lock is given up; a caller that
\* then finds self._model None starts or awaits a new load instead of
\* failing at once, and a load that succeeds after a failed one makes the
\* model ready for its caller.
C12_LoadFailureNotCached ==
    [][\A r \in RequestIds :
          /\ ( /\ pc[r] = "await_load"
               /\ fut[r].state = "error"
               /\ pc'[r] # pc[r] )
             => ( /\ _model' = "None"
                  /\ lock_owner' # r
                  /\ pc'[r] = "done"
                  /\ response'[r].status \in {"500", "stream_raised"} )
          /\ ( /\ loads.failed > 0
               /\ _model = "None"
               /\ pc[r] \in {"ensure_model", "wait_model_lock"}
               /\ pc'[r] # pc[r] )
             => ( /\ pc'[r] \in {"await_load", "wait_model_lock"}
                  /\ pc'[r] = "await_load" =>
                         dispatched'[r] = Append(dispatched[r], <<"load", 0>>) )
          /\ ( /\ loads.failed > 0
               /\ pc[r] = "await_load"
               /\ fut[r].state = "ok"
               /\ pc'[r] # pc[r] )
             => ( /\ _model' = "VoxCPM"
                  /\ pc'[r] = "resolve" )]_vars

\* one caller got the failure of the first load, the other loaded the model
\* by a second load and went on
C12_Witness ==
    /\ loads.failed = 1
    /\ loads.started = 2
    /\ _model = "VoxCPM"
    /\ \E r, q \in RequestIds :
          /\ q # r
          /\ pc[r] = "done"
          /\ response[r].status \in {"500", "stream_raised"}
          /\ dispatched[r] = << <<"load", 0>> >>
          /\ EnsureReturned(q)
          /\ dispatched[q][1] = <<"load", 0>>

\* C11: the temporary reference-audio file of a request exists only while
\* the request is inside the try of generate or generate_streaming; once
\* the call has ended, by return, failure, cancellation or abandonment, the
\* file is gone.
C11_TempFileRemovedOnEveryExit ==
    \A r \in RequestIds :
        /\ pc[r] = "done" => ~temp_file[r]
        /\ temp_file[r] => pc[r] \in TryPositions

\* the request wrote its temporary file and went on to recognition or inference
UsedTempFile(r) ==
    /\ request[r].temp_audio_base64 = "valid"
    /\ dispatched[r] # <<>>
    /\ dispatched[r][Len(dispatched[r])][1] \in {"asr_load", "asr", "infer"}

\* a batch request cancelled in an await and a streaming request abandoned
\* in a yield, both after they had written their temporary file
C11_Witness ==
    \E r, q \in RequestIds :
        /\ IsBatch(r) /\ UsedTempFile(r)
        /\ pc[r] = "done" /\ response[r].status = "cancelled"
        /\ ~IsBatch(q) /\ UsedTempFile(q)
        /\ pc[q] = "done" /\ response[q].status = "abandoned"
        /\ ~temp_file[r] /\ ~temp_file[q]

\* the request names a voice_uuid the voice service does not hold
NamesAbsentVoice(r) ==
    /\ pc[r] # "new"
    /\ request[r].voice_uuid = "unknown"
    /\ request[r].temp_audio_base64 = "None"

C6_ReadPathsReclaimExpired ==
    [][\A audio_id \in AudioIds :
          ( /\ lastOp'.op \in {"fetch", "info"}
            /\ lastOp'.audio_id = audio_id
            /\ audio_id \in DOMAIN _metadata
            /\ now > fromisoformat(_metadata[audio_id].expires_at) )
          => ( /\ lastOp'.path = NoPath
               /\ lastOp'.meta = {}
               /\ audio_id \notin DOMAIN _metadata'
               /\ _metadata[audio_id].filename \notin files' )]_vars

C6_Witness ==
    /\ lastOp.op \in {"fetch", "info"}
    /\ lastOp.reclaimed
    /\ lastOp.audio_id \notin DOMAIN _metadata
    /\ DOMAIN _metadata # {}

\* C7: in a store constructed with expire_hours = 0, the fetch that follows a
\* save of the same id returns nothing, and a sweep that follows a save
\* counts at least one removal.
C7_ZeroTtlAbsentOnNextFetch ==
    [][( /\ expire_arg = 0
         /\ lastOp.op = "save" )
       => ( /\ (lastOp'.op = "fetch" /\ lastOp'.audio_id = lastOp.audio_id)
                   => lastOp'.path = NoPath
            /\ lastOp'.op = "sweep" => lastOp'.count >= 1 )]_vars

\* C14: download_audio answers either with the file and the metadata of a
\* stored, unexpired artifact or with HTTP 404, and in no other way.
C14_DownloadFoundOrNotFound ==
    /\ download.status \in {"none", "200", "404"}
    /\ download.status = "200" =>
          /\ download.path # NoPath
          /\ \E meta \in download.meta :
                /\ meta.audio_id = download.audio_id
                /\ meta.filename = download.path

\* C13: a save under a new id adds exactly that id: its entry is the
\* metadata built from the arguments of this call (filename, format,
\* sample_rate, duration, created_at, expires_at), every other entry is
\* what it was, its file is written beside the others, and metadata.json
\* equals the in-memory index; an unexpired entry is then returned by fetch
\* (its own file) and by info (its own metadata).
C13_SavesDoNotInterfere ==
    [][/\ lastOp'.op = "save" =>
             \E meta \in lastOp'.meta :
                LET audio_id == lastOp'.audio_id
                IN /\ audio_id \notin DOMAIN _metadata
                   /\ DOMAIN _metadata' = DOMAIN _metadata \cup {audio_id}
                   /\ _metadata'[audio_id] = meta
                   /\ meta.audio_id = audio_id
                   /\ meta.filename = FileName(audio_id, meta.format)
                   /\ meta.created_at = isoformat(now)
                   /\ meta.expires_at = isoformat(now + expire_hours)
                   /\ \A other \in DOMAIN _metadata :
                         _metadata'[other] = _metadata[other]
                   /\ files' = files \cup {meta.filename}
                   /\ disk_metadata' = _metadata'
       /\ \A audio_id \in DOMAIN _metadata :
             ( /\ lastOp'.op \in {"fetch", "info"}
               /\ lastOp'.audio_id = audio_id
               /\ now' <= fromisoformat(_metadata[audio_id].expires_at) )
             => ( /\ _metadata[audio_id].audio_id = audio_id
                  /\ lastOp'.op = "fetch" => lastOp'.path = _metadata[audio_id].filename
                  /\ lastOp'.op = "info" => lastOp'.meta = {_metadata[audio_id]}
                  /\ UNCHANGED <<_metadata, disk_metadata, files>> )]_vars

\* two artifacts of different formats are stored, and the one saved first
\* has just been read back
C13_Witness ==
    /\ Cardinality(DOMAIN _metadata) = 2
    /\ disk_metadata = _metadata
    /\ lastOp.op = "info"
    /\ \E audio_id, other \in DOMAIN _metadata :
          /\ lastOp.meta = {_metadata[audio_id]}
          /\ _metadata[audio_id].format # _metadata[other].format
          /\ fromisoformat(_metadata[audio_id].created_at)
                 <= fromisoformat(_metadata[other].created_at)
          /\ audio_id # other

\* C17: cleanup_expired removes the entry and the file of every artifact
\* whose expires_at lies before the time of the sweep, leaves the entry and
\* the file of every other artifact as they were, and returns the number of
\* artifacts it removed.
C17_SweepRemovesExactlyExpired ==
    [][lastOp'.op = "sweep" =>
          LET expired == {audio_id \in DOMAIN _metadata :
                             now > fromisoformat(_metadata[audio_id].expires_at)}
          IN /\ DOMAIN _metadata' = DOMAIN _metadata \ expired
             /\ \A audio_id \in DOMAIN _metadata' :
                   /\ _metadata'[audio_id] = _metadata[audio_id]
                   /\ _metadata[audio_id].filename \in files'
             /\ files' = files \ {_metadata[audio_id].filename : audio_id \in expired}
             /\ disk_metadata' = _metadata'
             /\ lastOp'.count = Cardinality(expired)
             /\ lastOp'.count =
                   Cardinality(DOMAIN _metadata) - Cardinality(DOMAIN _metadata')]_vars

\* a sweep has removed one artifact, with no download ever requested, and
\* kept the newer, unexpired one
C17_Witness ==
    /\ lastOp.op = "sweep"
    /\ lastOp.count = 1
    /\ download.status = "none"
    /\ Cardinality(issued) = 2
    /\ Cardinality(DOMAIN _metadata) = 1
    /\ \A audio_id \in DOMAIN _metadata :
          /\ _metadata[audio_id].filename \in files
          /\ now <= fromisoformat(_metadata[audio_id].expires_at)

(***************************************************************************)
(* Claims about the text segmenter                                         *)
(***************************************************************************)
\* C8: every segment smart_split returns is non-empty and at most max_length
\* characters long.
C8_SegmentsWithinMaxLength ==
    split_pc = "done" =>
        \A k \in 1..Len(segments) :
            segments[k] # <<>> /\ Len(segments[k]) <= max_length

\* a call in which the text was cut and the merge step joined segments
C8_Witness ==
    /\ split_pc = "done"
    /\ Len(segments) >= 2
    /\ Len(BeforeMerge) > Len(segments)
    /\ \E k \in 1..Len(segments) : Len(segments[k]) = max_length

\* C9: the segments, concatenated in order and with all whitespace removed,
\* are the normalized input with all whitespace removed.
C9_SegmentsReconstructInput ==
    split_pc = "done" =>
        NoWhitespace(Flatten(segments)) = NoWhitespace(_normalize_text(text))

\* a call that cut the text at a delimiter and by a hard split, dropping whitespace
C9_Witness ==
    /\ split_pc = "done"
    /\ Len(segments) >= 3
    /\ Len(Flatten(segments)) < Len(_normalize_text(text))
    /\ \E k \in 1..Len(text) : text[k] \in PRIMARY_DELIMITERS \ WHITESPACE
    /\ \E k \in 1..Len(text) : text[k] \in SECONDARY_DELIMITERS

\* C18: a text that is not only whitespace and whose normalized form is at
\* most max_length characters long comes back as exactly one segment, the
\* normalized text.
C18_ShortTextIsOneSegment ==
    ( /\ split_pc = "done"
      /\ Strip(text) # <<>>
      /\ Len(_normalize_text(text)) <= max_length )
    => segments = <<_normalize_text(text)>>

\* a short text with a delimiter and inner whitespace, changed by the
\* normalization, has come back whole
C18_Witness ==
    /\ split_pc = "done"
    /\ segments = <<_normalize_text(text)>>
    /\ _normalize_text(text) # text
    /\ Len(_normalize_text(text)) = max_length
    /\ \E k \in 2..(Len(segments[1]) - 1) :
          /\ segments[1][k - 1] \in PRIMARY_DELIMITERS \ WHITESPACE
          /\ segments[1][k] = " "

\* the last character of a segment
LastChar(seg) == seg[Len(seg)]

\* C19: smart_split("Hello world. This is a test!", max_length=15) returns
\* at least two segments of at most 15 characters each, which concatenated
\* in order are the source but for whitespace, and the "." and the "!" are
\* each the last character of a segment.
C19_ExampleSplit ==
    ( /\ split_pc = "done"
      /\ text = ExampleCall.text
      /\ max_length = ExampleCall.max_length )
    => ( /\ Len(segments) >= 2
         /\ \A k \in 1..Len(segments) : Len(segments[k]) <= 15
         /\ NoWhitespace(Flatten(segments)) = NoWhitespace(text)
         /\ \E k \in 1..Len(segments) : LastChar(segments[k]) = "."
         /\ LastChar(segments[Len(segments)]) = "!" )

\* the call has returned "Hello world." and "This is a test!"
C19_Witness ==
    /\ split_pc = "done"
    /\ text = ExampleCall.text
    /\ max_length = ExampleCall.max_length
    /\ Len(segments) = 2
    /\ segments[1] = SubSeq(text, 1, 12)
    /\ segments[2] = SubSeq(text, 14, 28)

\* the artifact store as a whole: files, index, persisted index, ids handed out
ArtifactStore == <<files, _metadata, disk_metadata, issued>>

\* C21: no step of a streaming request creates, modifies or deletes an
\* artifact, also when the request sets save_result; the artifact store
\* changes only in the step in which a batch request that sets save_result
\* returns its answer
C21_StreamingNeverPersists ==
    [][ /\ \A r \in RequestIds :
             (request'[r].mode = "stream" /\ <<pc[r], events[r]>>' # <<pc[r], events[r]>>)
                => UNCHANGED ArtifactStore
        /\ ArtifactStore' # ArtifactStore =>
              \E r \in RequestIds :
                 /\ request[r].mode = "batch" /\ request[r].save_result
                 /\ pc[r] = "loop_head" /\ pc'[r] = "done"
                 /\ response'[r].status = "200" ]_vars

\* a streaming request that set save_result has delivered its done event
\* and the store is still empty
C21_Witness ==
    \E r \in RequestIds :
       /\ request[r].mode = "stream" /\ request[r].save_result
       /\ pc[r] = "done" /\ response[r].status = "stream_closed"
       /\ events[r] # <<>> /\ events[r][Len(events[r])].event = "done"
       /\ files = {} /\ DOMAIN _metadata = {} /\ issued = {}

\* the inference calls of request r that are queued or running
PendingInfer(r) ==
    {k \in 1..Len(ex_queue) : ex_queue[k].req = r /\ ex_queue[k].op = "infer"}
    \cup {task \in ex_running : task.req = r /\ task.op = "infer"}

\* the number of segments of request r whose audio the request has received
CompletedSegments(r) ==
    IF request[r].mode = "batch"
    THEN Len(all_audio[r])
    ELSE Len(SelectSeq(events[r], LAMBDA e : e.event = "audio_chunk"))

\* C22: within one request at most one of its inference calls is queued or
\* running at any time; its calls are for the segments 0, 1, 2, ... in this
\* order, none skipped; and the call for a segment is dispatched only when
\* no call of the request is pending and every earlier segment has
\* completed successfully.
C22_SegmentsDispatchedOneByOne ==
    /\ [](\A r \in RequestIds :
            /\ Cardinality(PendingInfer(r)) <= 1
            /\ \A k \in 1..Len(InferCalls(r)) : InferCalls(r)[k] = <<"infer", k - 1>>)
    /\ [][\A r \in RequestIds :
            Len(dispatched'[r]) > Len(dispatched[r])
            /\ dispatched'[r][Len(dispatched'[r])][1] = "infer"
            => /\ PendingInfer(r) = {}
               /\ fut[r] = NoFuture
               /\ dispatched'[r][Len(dispatched'[r])][2] = CompletedSegments(r)]_vars

\* requests of both kinds have dispatched the call of their third segment
C22_Witness ==
    \E r, q \in RequestIds :
       /\ request[r].mode = "batch" /\ request[q].mode = "stream"
       /\ Len(InferCalls(r)) = 3 /\ Len(InferCalls(q)) = 3
       /\ PendingInfer(q) # {}

\* the calls that use the model: load_model, load_asr, do_asr, generate_segment
ModelOperations == {"load", "asr_load", "asr", "infer"}

\* C23: the calls into the model that execute at the same time (inference,
\* recognition, model loads), of all requests together and also of requests
\* that were cancelled meanwhile, never outnumber the worker pool; with the
\* pool size 1 no two inference calls overlap.
C23_RunningWithinPool ==
    /\ \A task \in ex_running : task.op \in ModelOperations
    /\ Cardinality(ex_running) <= worker_count
    /\ worker_count = 1 =>
          Cardinality({task \in ex_running : task.op = "infer"}) <= 1

\* an inference call of one request is running while an inference call of
\* another request waits in the executor's queue
C23_Witness ==
    \E task \in ex_running :
       /\ task.op = "infer"
       /\ \E k \in 1..Len(ex_queue) :
             ex_queue[k].op = "infer" /\ ex_queue[k].req # task.req

\* the number of loads, of the model or of the recognition model, that were
\* handed to the executor and have not ended yet
LoadsInProgress ==
    Len(SelectSeq(ex_queue, LAMBDA task : task.op \in {"load", "asr_load"}))
    + Cardinality({task \in ex_running : task.op \in {"load", "asr_load"}})

\* C24: at every moment at most one load, of the model or of the
\* recognition model, is in progress process-wide.
C24_AtMostOneLoadInProgress == LoadsInProgress <= 1

\* request r has handed a load of the model to the executor in this step
LoadDispatched(r) ==
    /\ Len(dispatched'[r]) > Len(dispatched[r])
    /\ dispatched'[r][Len(dispatched'[r])][1] = "load"

\* C25: once the model is loaded, no step (an inference that succeeds or
\* fails, a failed recognition, a failed request, a cancellation, an
\* abandoned stream) sets it back to not loaded, nobody is loading it, and
\* no request dispatches a new load; a request that comes after a failed
\* inference therefore runs its inference on the model already loaded.
C25_ReadyIsTerminal ==
    /\ [](_model # "None" => \A r \in RequestIds : pc[r] # "await_load")
    /\ [][_model # "None" =>
            /\ _model' = _model
            /\ \A r \in RequestIds : ~LoadDispatched(r)]_vars

\* the inference of a batch request has failed, and the inference of
\* another request, which never dispatched a load, runs after it on the
\* model that was loaded once
C25_Witness ==
    \E r, q \in RequestIds :
       /\ _model # "None" /\ loads.started = 1
       /\ pc[r] = "done" /\ response[r].status = "500"
       /\ InferCalls(r) # <<>>
       /\ \A k \in 1..Len(dispatched[q]) : dispatched[q][k][1] # "load"
       /\ \E task \in ex_running : task.req = q /\ task.op = "infer"

\* the inference calls of request r that a worker thread is running
RunningInfer(r) == {task \in ex_running : task.req = r /\ task.op = "infer"}

\* C28: when a request is cancelled while one of its inference calls runs
\* on a worker thread, the call stays on its thread, and a running call
\* leaves its thread only by ending there, on its own; the cancelled
\* request dispatches no call afterwards.
C28_CancelledRequestStops ==
    [][\A r \in RequestIds :
          /\ (RunningInfer(r) # {} /\ pc[r] # "done" /\ response'[r].status = "cancelled")
                => RunningInfer(r) \subseteq ex_running'
          /\ \A task \in RunningInfer(r) :
                task \notin ex_running' =>
                   /\ ex_running' = ex_running \ {task}
                   /\ UNCHANGED <<pc, ex_queue, dispatched, response>>
          /\ pc[r] = "done" => dispatched'[r] = dispatched[r]]_vars

\* a request of three segments was cancelled while the call for its first
\* segment was running: the call is still running on its thread and the
\* calls for the later segments have not been dispatched
C28_Witness ==
    \E r \in RequestIds :
       /\ request[r].nsegs = 3
       /\ pc[r] = "done" /\ response[r].status = "cancelled"
       /\ InferCalls(r) = <<<<"infer", 0>>>>
       /\ RunningInfer(r) = {[req |-> r, op |-> "infer", seg |-> 0]}

\* C30: once the model is loaded, _ensure_model_loaded returns at once: the
\* caller neither takes the lock nor queues for it nor dispatches anything,
\* whoever holds the lock at that moment.
C30_ReadyCallersSkipLock ==
    [][\A r \in RequestIds :
          (pc[r] = "ensure_model" /\ _model # "None" /\ pc'[r] # pc[r]) =>
              /\ pc'[r] = "resolve"
              /\ UNCHANGED <<lock_owner, lock_waiters, ex_queue, dispatched>>]_vars

\* a request has come out of _ensure_model_loaded while another request
\* holds the lock for the load of the recognition model
C30_Witness ==
    \E r, q \in RequestIds :
       /\ r # q
       /\ _model # "None"
       /\ lock_owner = q /\ pc[q] = "await_asr_load"
       /\ pc[r] = "resolve" /\ dispatched[r] = <<>>

\* the ids a step removes from the index, read from the call it made: the
\* id asked for when a fetch or info reclaimed it, the expired ids in a sweep
RemovedByStep ==
    IF ~lastOp'.reclaimed THEN {}
    ELSE IF lastOp'.op = "sweep"
         THEN {audio_id \in DOMAIN _metadata :
                  now > fromisoformat(_metadata[audio_id].expires_at)}
         ELSE {lastOp'.audio_id}

\* the id a step inserts into the index
SavedByStep == IF lastOp'.op = "save" THEN {lastOp'.audio_id} ELSE {}

\* C26: under every interleaving of save, fetch, info, sweep and download
\* calls no update of the metadata index is lost: each call changes the
\* index by exactly its own insertion or removals and leaves every other
\* entry as it was, so the index holds exactly the ids saved and not removed
\* since, and metadata.json always equals the index.
C26_NoIndexUpdateLost ==
    /\ [](disk_metadata = _metadata /\ DOMAIN _metadata \subseteq issued)
    /\ [][/\ DOMAIN _metadata' = (DOMAIN _metadata \cup SavedByStep) \ RemovedByStep
           /\ \A audio_id \in DOMAIN _metadata \cap DOMAIN _metadata' :
                 _metadata'[audio_id] = _metadata[audio_id]
           /\ disk_metadata' = _metadata']_vars

\* an artifact was saved and removed again, a second one was saved after
\* that and is the only entry of the index and of metadata.json
C26_Witness ==
    /\ lastOp.op = "save"
    /\ Cardinality(issued) = 2
    /\ DOMAIN _metadata = {lastOp.audio_id}
    /\ DOMAIN disk_metadata = {lastOp.audio_id}
    /\ download.status = "none"

\* C27: every entry of the metadata index, at every moment, names a file
\* that is completely written: save_audio inserts the entry only after the
\* file has been written, also when the write fails, so no fetch or info
\* finds an entry whose file is missing or partial.
C27_IndexedFilesAreWritten ==
    \A audio_id \in DOMAIN _metadata :
        /\ _metadata[audio_id].filename \in files
        /\ _metadata[audio_id].filename = FileName(audio_id, _metadata[audio_id].format)

\* a save has failed while writing its file, next to a stored artifact that a
\* fetch has just found
C27_Witness ==
    /\ lastOp.op = "fetch" /\ lastOp.path # NoPath
    /\ \E audio_id \in issued :
          /\ audio_id \notin DOMAIN _metadata
          /\ \A format \in Formats : FileName(audio_id, format) \notin files
    /\ now = 0
    /\ Cardinality(DOMAIN _metadata) = 1

(***************************************************************************)
(* Claims about the application lifespan                                   *)
(***************************************************************************)
\* C29: once shutdown has cancelled the sweep task, whether the task had
\* not started, was sleeping or was about to resume for a sweep, the task
\* ends and shutdown completes, never with an error; and the task executes
\* no sweep from the moment of the cancel() on.
C29_ShutdownStopsSweepTask ==
    /\ [](lifespan_pc # "failed")
    /\ [](lifespan_pc = "complete" => cleanup_task_handle.state \in TaskDone)
    /\ [][cleanup_task_handle'.sweeps > cleanup_task_handle.sweeps =>
            lifespan_pc = "serving" /\ ~cleanup_task_handle.must_cancel]_vars
    /\ (lifespan_pc = "awaiting_task") ~> (lifespan_pc = "complete")

\* shutdown is complete after the task, which had swept expired artifacts
\* away before, was cancelled and returned
C29_Witness ==
    /\ lifespan_pc = "complete"
    /\ cleanup_task_handle.state = "finished"
    /\ cleanup_task_handle.sweeps >= 1
    /\ lastOp.op = "sweep" /\ lastOp.count >= 1

(***************************************************************************)
(* Further claims about the text segmenter                                 *)
(***************************************************************************)
\* C31: in a result of several segments no two adjacent segments are left
\* of which one is shorter than MIN_LENGTH (20) while the two together are
\* at most max_length long.
C31_NoMergeablePairLeft ==
    (split_pc = "done" /\ Len(segments) >= 2) =>
        \A k \in 1..(Len(segments) - 1) :
            ~ ( /\ (Len(segments[k]) < MIN_LENGTH \/ Len(segments[k + 1]) < MIN_LENGTH)
                /\ Len(segments[k]) + Len(segments[k + 1]) <= max_length )

\* the pieces split hands to _hard_split: the parts of the second pass that
\* are longer than max_length
HardSplitPieces(t, m) ==
    LET first == _split_by_pattern(_normalize_text(t), PRIMARY_DELIMITERS)
        subs == UNION {IF Len(first[k]) <= m THEN {}
                       ELSE LET sub == _split_by_pattern(first[k], SECONDARY_DELIMITERS)
                            IN {sub[j] : j \in 1..Len(sub)} : k \in 1..Len(first)}
    IN {sub \in subs : Len(sub) > m}

\* the hard split as the claim words it: each chunk is cut at the last space
\* among the SEARCH_WINDOW characters before position m, when there is one,
\* and at m otherwise
RECURSIVE ClaimedHardSplit(_, _)
ClaimedHardSplit(remaining, m) ==
    IF Len(remaining) > m
    THEN LET search_start == IF m - SEARCH_WINDOW > 0 THEN m - SEARCH_WINDOW ELSE 0
             spaces == {k \in search_start..(m - 1) : remaining[k + 1] = " "}
             split_point == IF spaces # {} THEN MaxOf(spaces) ELSE m
             segment == Strip(SubSeq(remaining, 1, split_point))
         IN (IF segment # <<>> THEN <<segment>> ELSE <<>>)
                \o ClaimedHardSplit(Strip(SubSeq(remaining, split_point + 1,
                                                 Len(remaining))), m)
    ELSE IF remaining # <<>> THEN <<remaining>> ELSE <<>>

\* C32: every over-length piece is cut, chunk after chunk, at the last space
\* among the 50 characters before position max_length when there is such a
\* space and at max_length otherwise (so a piece without whitespace is
\* sliced into chunks of max_length characters, the last possibly shorter).
C32_HardSplitCutsAtLastSpaceInWindow ==
    split_pc = "done" =>
        \A piece \in HardSplitPieces(text, max_length) :
            /\ _hard_split(piece, max_length) = ClaimedHardSplit(piece, max_length)
            /\ (\A k \in 1..Len(piece) : piece[k] \notin WHITESPACE) =>
                  \A j \in 1..Len(_hard_split(piece, max_length)) :
                     _hard_split(piece, max_length)[j] =
                        SubSeq(piece, (j - 1) * max_length + 1,
                               IF j * max_length < Len(piece)
                               THEN j * max_length ELSE Len(piece))

\* the part of C32 about pieces without whitespace, and the cut at a space
\* that lies after the first position of the window
C32_FixedWidthWithoutWhitespace ==
    split_pc = "done" =>
        \A piece \in HardSplitPieces(text, max_length) :
            (\A k \in 1..Len(piece) : piece[k] \notin WHITESPACE) =>
                /\ _hard_split(piece, max_length) = ClaimedHardSplit(piece, max_length)
                /\ Flatten(_hard_split(piece, max_length)) = piece
                /\ \A j \in 1..(Len(_hard_split(piece, max_length)) - 1) :
                      Len(_hard_split(piece, max_length)[j]) = max_length

(***************************************************************************)
(* Process restart of the artifact store                                   *)
(***************************************************************************)
\* json.dump of the index: one member per audio id, each a JSON object with
\* the seven fields save_audio wrote
json_dump(d) ==
    {[key |-> k,
      value |-> [audio_id |-> d[k].audio_id,
                 filename |-> d[k].filename,
                 format |-> d[k].format,
                 sample_rate |-> d[k].sample_rate,
                 duration_seconds |-> d[k].duration_seconds,
                 created_at |-> d[k].created_at,
                 expires_at |-> d[k].expires_at]] : k \in DOMAIN d}

\* json.load: the dict of the members read
json_load(doc) ==
    [k \in {member.key : member \in doc} |->
        (CHOOSE member \in doc : member.key = k).value]

_load_metadata_empty(disk) == <<>>

\* _load_metadata: the index read back from metadata.json as _save_metadata
\* wrote it ({} when nothing was ever written)
_load_metadata(disk) == json_load(json_dump(disk))

\* the process ends and a new GeneratedAudioManager is constructed on the same
\* directory; a download in flight ends with the process
Restart ==
    /\ expire_arg' \in ExpireArgs
    /\ expire_hours' = OrDefault(expire_arg', generated_audio_expire_hours)
    /\ _metadata' = _load_metadata(disk_metadata)
    /\ download' = NoDownload
    /\ lastOp' = OpRecord("restart", 0, NoPath, {}, 0, FALSE)
    /\ UNCHANGED <<disk_metadata, files, issued, now, ticks, taskVars, splitVars, podcast, svcVars>>

RestartNext ==
    \/ StoreNext
    \/ Restart

RestartInit == StoreInit /\ LifespanIdle /\ SplitIdle /\ ServiceIdle /\ PodcastIdle

RestartSpec == RestartInit /\ [][RestartNext]_vars

\* C33: a store constructed on the same directory after any sequence of saves,
\* lazy expiries and sweeps has the index of the previous instance, and every
\* entry keeps its filename, format, sample_rate, duration, created_at and
\* expires_at
C33_IndexSurvivesRestart ==
    [][Restart =>
        /\ DOMAIN _metadata' = DOMAIN _metadata
        /\ \A audio_id \in DOMAIN _metadata :
              /\ _metadata'[audio_id].filename = _metadata[audio_id].filename
              /\ _metadata'[audio_id].format = _metadata[audio_id].format
              /\ _metadata'[audio_id].sample_rate = _metadata[audio_id].sample_rate
              /\ _metadata'[audio_id].duration_seconds = _metadata[audio_id].duration_seconds
              /\ _metadata'[audio_id].created_at = _metadata[audio_id].created_at
              /\ _metadata'[audio_id].expires_at = _metadata[audio_id].expires_at
        /\ _metadata' = _metadata]_vars

\* a restart that reloaded a non-empty index after an entry had been removed
C33_Witness ==
    /\ lastOp.op = "restart"
    /\ DOMAIN _metadata # {}
    /\ DOMAIN _metadata # issued
    /\ \E audio_id \in issued \ DOMAIN _metadata : FileName(audio_id, "wav") \notin files

\* C34: while an inference call of a request with inline reference audio is
\* executing on the worker pool, the request's temporary reference-audio file
\* exists
C34_TempFileOutlivesRunningCall ==
    \A task \in ex_running :
        (task.op = "infer" /\ request[task.req].temp_audio_base64 = "valid")
            => temp_file[task.req]

(***************************************************************************)
(* The generation service under a fair event loop and worker pool          *)
(***************************************************************************)
\* every step of request r after its arrival: the resumptions of its
\* coroutine and, for a stream, the consumer asking for the next event
RequestStep(r) ==
    \/ StreamStart(r)
    \/ EnsureModelLoaded(r)
    \/ ModelLockAcquired(r)
    \/ LoadDone(r)
    \/ Resolve(r)
    \/ EnsureAsrLoaded(r)
    \/ AsrLockAcquired(r)
    \/ AsrLoadDone(r)
    \/ AsrDone(r)
    \/ Split(r)
    \/ BatchDispatch(r)
    \/ StreamProgress(r)
    \/ StreamDispatch(r)
    \/ BatchInferDone(r)
    \/ StreamInferDone(r)
    \/ StreamNext(r)
    \/ StreamDone(r)
    \/ StreamClose(r)
    \/ BatchReturn(r)

FairInit == ServiceInit /\ StoreIdle /\ SplitIdle /\ PodcastIdle

\* the event loop resumes every task that stays ready, the worker thread
\* takes the next queued call when idle, and every call into the external
\* models returns or raises
FairSpec ==
    /\ FairInit
    /\ [][Next]_vars
    /\ \A r \in RequestIds : WF_vars(RequestStep(r))
    /\ WF_vars(WorkerStart)
    /\ WF_vars(WorkerFinish)

\* C35: every request that was received eventually completes (result,
\* failure or terminal event), for any interleaving of batch and streaming
\* requests on the shared lock and worker pool
C35_EveryRequestCompletes ==
    /\ <>[](\A r \in RequestIds : pc[r] \in {"new", "done"})
    /\ [][\A r \in RequestIds : pc[r] # "new" => pc'[r] # "new"]_vars

\* a batch request and a streaming request with inline reference audio that
\* needs recognition were served concurrently on a cold service and both
\* completed successfully
C35_Witness ==
    \E r, q \in RequestIds :
        /\ pc[r] = "done" /\ pc[q] = "done"
        /\ request[r].mode = "batch" /\ response[r].status = "200"
        /\ request[q].mode = "stream"
        /\ request[q].temp_audio_base64 = "valid" /\ request[q].temp_prompt_text = "None"
        /\ events[q] # <<>> /\ events[q][Len(events[q])].event = "done"
        /\ loads.started >= 1

(***************************************************************************)
(* The event sequence of a stream, with durations                          *)
(***************************************************************************)
CountOf(evs, kind) == Len(SelectSeq(evs, LAMBDA e : e.event = kind))

ChunkDurations(evs) ==
    LET chunks == SelectSeq(evs, LAMBDA e : e.event = "audio_chunk")
    IN [k \in 1..Len(chunks) |-> chunks[k].duration]

RECURSIVE SumOf(_)
SumOf(numbers) == IF numbers = <<>> THEN 0 ELSE Head(numbers) + SumOf(Tail(numbers))

\* in every prefix the progress events are as many as the audio_chunk events
\* or one more, every audio_chunk follows the progress of its segment, and
\* all progress events carry one total_segments
EventsPaired(evs) ==
    /\ \A n \in 0..Len(evs) :
          CountOf(SubSeq(evs, 1, n), "progress") - CountOf(SubSeq(evs, 1, n), "audio_chunk")
              \in {0, 1}
    /\ \A k \in 1..Len(evs) :
          evs[k].event = "audio_chunk" =>
              /\ k > 1
              /\ evs[k - 1].event = "progress"
              /\ evs[k - 1].segment = evs[k].segment
    /\ \A j, k \in 1..Len(evs) :
          (evs[j].event = "progress" /\ evs[k].event = "progress") =>
              evs[j].total_segments = evs[k].total_segments

\* C36: the events of every stream are paired as above, a done event carries
\* the number of audio_chunk events emitted, and its total duration is the
\* unrounded sum len(wav) / sample_rate of the chunks rounded to three
\* decimals, within 0.0005 * (chunks + 1) of the sum of the rounded durations
\* the audio_chunk events carry
C36_StreamEventAccounting ==
    \A r \in RequestIds :
        LET evs == events[r]
        IN /\ EventsPaired(evs)
           /\ \A k \in 1..Len(evs) :
                 evs[k].event = "done" =>
                     LET n == CountOf(SubSeq(evs, 1, k), "audio_chunk")
                         carried == SumOf(ChunkDurations(SubSeq(evs, 1, k)))
                         diff == evs[k].duration - carried
                     IN /\ evs[k].total_segments = n
                        /\ evs[k].duration =
                               round3(SumOfLengths(SegmentAudios(r, n)), ModelSampleRate)
                        /\ 2 * (IF diff < 0 THEN 0 - diff ELSE diff) <= n + 1

\* a stream of three segments ended with a done event whose total duration
\* is not the sum of the durations its audio_chunk events carried
C36_Witness ==
    \E r \in RequestIds :
        LET evs == events[r]
        IN /\ pc[r] = "done"
           /\ evs # <<>>
           /\ evs[Len(evs)].event = "done"
           /\ CountOf(evs, "audio_chunk") = 3
           /\ evs[Len(evs)].duration # SumOf(ChunkDurations(evs))

\* C36 as stated: the total duration of the done event equals the sum of
\* the durations of the audio_chunk events.
C36_DoneDurationIsSumOfChunkDurations ==
    \A r \in RequestIds :
        LET evs == events[r]
        IN /\ EventsPaired(evs)
           /\ \A k \in 1..Len(evs) :
                 evs[k].event = "done" =>
                     /\ evs[k].total_segments = CountOf(SubSeq(evs, 1, k), "audio_chunk")
                     /\ evs[k].duration = SumOf(ChunkDurations(SubSeq(evs, 1, k)))

(***************************************************************************)
(* Isolation of concurrent requests                                        *)
(***************************************************************************)
\* the calls handed to the worker pool that have not returned
CallsInFlight == {ex_queue[k] : k \in 1..Len(ex_queue)} \cup ex_running

\* C37: every inference call in flight was made by a request that is waiting
\* for exactly that call, for the segment that request is at, and that
\* segment is one of the request's own; what a request collects, receives
\* and answers with are the outputs of its own calls, in segment order
C37_RequestsAreIsolated ==
    /\ \A task \in CallsInFlight :
          task.op = "infer" =>
              /\ pc[task.req] = "await_infer"
              /\ fut[task.req].state = "pending"
              /\ task.seg = seg_i[task.req]
              /\ task.seg \in 0..(request[task.req].nsegs - 1)
              /\ \A other \in CallsInFlight : other.req = task.req => other = task
    /\ \A r \in RequestIds :
          /\ \A j \in 1..Len(all_audio[r]) :
                /\ all_audio[r][j] # <<>>
                /\ \A k \in 1..Len(all_audio[r][j]) :
                      /\ all_audio[r][j][k][1] = r
                      /\ all_audio[r][j][k][2] = j - 1
          /\ \A k \in 1..Len(fut[r].value) :
                /\ fut[r].value[k][1] = r
                /\ fut[r].value[k][2] = seg_i[r]
          /\ \A k \in 1..Len(response[r].audio) : response[r].audio[k][1] = r
          /\ LET chunks == SelectSeq(events[r], LAMBDA e : e.event = "audio_chunk")
             IN \A j \in 1..Len(chunks) :
                   /\ chunks[j].segment = j
                   /\ chunks[j].duration = round3(Len(Wav(r, j - 1)), ModelSampleRate)

\* a batch request and a streaming request, both of several segments, had
\* inference calls in the worker pool at the same time, each after it had
\* already received audio
C37_Witness ==
    \E r, q \in RequestIds :
        /\ request[r].mode = "batch" /\ request[q].mode = "stream"
        /\ \E t1, t2 \in CallsInFlight :
              /\ t1.req = r /\ t1.op = "infer" /\ t1.seg >= 1
              /\ t2.req = q /\ t2.op = "infer" /\ t2.seg >= 1
        /\ all_audio[r] # <<>>
        /\ \E k \in 1..Len(events[q]) : events[q][k].event = "audio_chunk"

(***************************************************************************)
(* The periodic sweep with sweeps that may raise                           *)
(***************************************************************************)
SweepNext ==
    \/ LifespanNext
    \/ CleanupTaskWakeRaises

SweepInit ==
    /\ StoreInit
    /\ cleanup_task_handle = NoTask
    /\ lifespan_pc = "startup"
    /\ SplitIdle
    /\ ServiceIdle
    /\ PodcastIdle

\* startup runs to its yield, every sleep of the task ends, and the event
\* loop runs every step that stays ready
SweepSpec ==
    /\ SweepInit
    /\ [][SweepNext]_vars
    /\ WF_vars(LifespanStartup)
    /\ WF_vars(CleanupTaskStart)
    /\ WF_vars(TimerFires)
    /\ WF_vars(CleanupTaskWake \/ CleanupTaskWakeRaises)
    /\ WF_vars(CleanupTaskCancelled)
    /\ WF_vars(LifespanShutdownDone)

\* shutdown has not begun: the sweep task has not been cancelled
NotCancelled == lifespan_pc \in {"startup", "serving"}

\* C38: while the task is not cancelled it never ends; resumed after a sleep
\* it runs a sweep and sleeps again, also when the sweep raises; and every
\* artifact whose expiry time has passed is eventually out of the store
\* unless the task is cancelled first
C38_SweepsGoOn ==
    /\ [](NotCancelled => cleanup_task_handle.state \notin TaskDone)
    /\ [][(cleanup_task_handle.state = "woken" /\ ~cleanup_task_handle.must_cancel
              /\ cleanup_task_handle'.state # "woken")
            => /\ cleanup_task_handle'.state = "sleeping"
               /\ lastOp'.op \in {"sweep", "sweep_failed"}
               /\ lastOp'.op = "sweep" => ExpiredIds(_metadata', now') = {}]_vars
    /\ \A audio_id \in AudioIds :
          (audio_id \in DOMAIN _metadata /\ IsExpired(_metadata[audio_id], now))
              ~> (audio_id \notin DOMAIN _metadata \/ ~NotCancelled)

\* a sweep has raised after removing one expired artifact; the task sleeps
\* again, not cancelled, and another expired artifact, never fetched, is
\* still in the store for a later sweep
C38_Witness ==
    /\ NotCancelled
    /\ lastOp.op = "sweep_failed"
    /\ cleanup_task_handle.state = "sleeping"
    /\ cleanup_task_handle.sweeps >= 1
    /\ ExpiredIds(_metadata, now) # {}

(***************************************************************************)
(* Claims about the podcast route                                          *)
(***************************************************************************)
\* how many of the segments in segs carry segment_index idx
IndexCount(segs, idx) == Cardinality({k \in 1..Len(segs) : segs[k].segment_index = idx})

\* C39: a successful podcast answer has one timeline entry per input segment,
\* in ascending segment_index order, starting at 0 ms, every entry ending
\* no earlier than it starts and starting where the previous one ends, the
\* total duration_ms is the end of the last entry, and exactly one artifact
\* was saved; a failure answer, whichever segment or step failed, leaves no
\* artifact saved
C39_PodcastTimelineIsContiguous ==
    podcast.pc = "done" =>
        LET timeline == podcast.response.segments
            n == Len(timeline)
        IN IF podcast.response.success
           THEN /\ n = Len(podcast.segments)
                /\ n >= 1
                /\ \A idx \in PodcastIndices :
                      IndexCount(timeline, idx) = IndexCount(podcast.segments, idx)
                /\ \A k \in 1..(n - 1) :
                      timeline[k].segment_index <= timeline[k + 1].segment_index
                /\ timeline[1].start_time_ms = 0
                /\ \A k \in 1..n : timeline[k].end_time_ms >= timeline[k].start_time_ms
                /\ \A k \in 2..n : timeline[k].start_time_ms = timeline[k - 1].end_time_ms
                /\ podcast.response.duration_ms = timeline[n].end_time_ms
                /\ DOMAIN _metadata = {podcast.response.audio_id}
                /\ files = {FileName(podcast.response.audio_id, podcast.output_format)}
                /\ issued = {podcast.response.audio_id}
           ELSE /\ DOMAIN _metadata = {}
                /\ files = {}
                /\ podcast.response.segments = <<>>

\* a podcast of three segments sent out of order, one of them rounding to
\* 0 ms, was generated and saved
C39_Witness ==
    /\ podcast.pc = "done"
    /\ podcast.response.success
    /\ Len(podcast.segments) = 3
    /\ podcast.segments[1].segment_index > podcast.segments[2].segment_index
    /\ podcast.segments[2].segment_index = podcast.segments[3].segment_index
    /\ \E k \in 1..3 : podcast.response.segments[k].end_time_ms
                            = podcast.response.segments[k].start_time_ms
    /\ podcast.response.duration_ms > 1000

\* a podcast whose second segment failed after the first had been generated
C39_WitnessFailure ==
    /\ podcast.pc = "done"
    /\ ~podcast.response.success
    /\ Len(podcast.timeline_results) = 1
    /\ Len(podcast.segments) >= 2

====
